---------------------------- MODULE Spec2Model ----------------------------
(***************************************************************************)
(* Dynamic reading mode userscript (src/dynamic-reading-mode.user.js).      *)
(*                                                                         *)
(* Two objects are modelled:                                               *)
(*   - MediaPipeDistanceDetector: smoothing buffer, alignment classifier   *)
(*     with its debounce counter, calibration, relative distance;          *)
(*   - ReadingModeManager: the font mapper (dead zone, distance threshold, *)
(*     font threshold) and the contrast target.                            *)
(*                                                                         *)
(* JavaScript numbers are modelled as exact rationals <<n, d>> in lowest   *)
(* terms with d > 0; JavaScript null is the pair <<0, 0>>.  Date.now() is  *)
(* the variable now, in milliseconds.                                      *)
(***************************************************************************)
EXTENDS Integers, Sequences, FiniteSets, TLC

VARIABLES
    \* ---- clock
    now,                      \* Date.now()
    \* ---- ReadingModeManager
    isReadingMode,
    isDynamicFontEnabled,
    isDynamicContrastEnabled,
    baseFontSize,
    currentFontSize,
    lastStableDistance,
    currentDistance,
    deadZoneCenter,
    lastDistanceChangeTime,
    currentContrast,          \* BaseColors, or the target ratio the current colors were derived from
    distanceDetector,         \* this.distanceDetector: 0 for null, else the number of the detector
    storedSettings,           \* localStorage["reading-mode-settings"]
    managerError,             \* the last step ended in the error callback (onDynamicError)
    \* ---- MediaPipeDistanceDetector
    faceHistory,
    calibration,
    lastCalibrationStatus,
    statusStabilityCounter,
    statusStabilityThreshold,
    isInitialized,
    video,                    \* this.video holds a camera stream
    isRunning,
    faceMeshClosed,           \* cleanup() has closed this.faceMesh
    storedCalibration,        \* localStorage["mediapipe-calibration"]
    \* ---- CalibrationDialogManager
    calibrationData,          \* this.calibrationData: the record of the last completed calibration
    isCalibrating,            \* this.isCalibrating
    startCalibrationBtnDisabled, \* this.startCalibrationBtn.disabled
    countdowns,               \* the running setInterval countdowns of startCalibration, oldest first
    \* ---- the detectors a reading-mode session has constructed, and its pending awaits
    detectors,                \* sequence of [isInitialized, video, isRunning], in order of construction
    tasks,                    \* the suspended calls of startDynamicFont / startDynamicContrast
    \* ---- what the last step did (callbacks invoked, result returned)
    op,                       \* name of the last operation
    args,                     \* the arguments it was called with
    delivered,                \* sample handed to config.onDistanceUpdate in the last step
    notified,                 \* status handed to config.onCalibrationFrameStatus in the last step
    returned,                 \* value returned (or "throw") by the last detector call
    \* ---- history of the frames seen by the detector
    frameNo,                  \* number of frame results processed
    frameStatus,              \* alignment status of the last frame
    frameRun                  \* number of consecutive frames, ending with the last, with that status

mgrVars == <<isReadingMode, isDynamicFontEnabled, isDynamicContrastEnabled, baseFontSize,
             currentFontSize, lastStableDistance, currentDistance, deadZoneCenter,
             lastDistanceChangeTime, currentContrast, distanceDetector, storedSettings,
             managerError>>

detVars == <<faceHistory, calibration, lastCalibrationStatus, statusStabilityCounter,
             statusStabilityThreshold, isInitialized, video, isRunning, faceMeshClosed,
             storedCalibration>>

btnVars == <<isCalibrating, startCalibrationBtnDisabled, countdowns>>
dlgVars == <<calibrationData, btnVars>>
sesVars == <<detectors, tasks>>

obsVars == <<op, args, delivered, notified, returned, frameNo, frameStatus, frameRun>>

vars == <<now, mgrVars, detVars, dlgVars, sesVars, obsVars>>

----------------------------------------------------------------------------
(* Exact rational arithmetic standing for JavaScript's number arithmetic.  *)

Abs(x) == IF x < 0 THEN -x ELSE x

RECURSIVE GCD(_, _)
GCD(a, b) == IF b = 0 THEN a ELSE GCD(b, a % b)

Rat(n, d) ==
    LET g == GCD(Abs(n), Abs(d))
        s == IF d < 0 THEN -1 ELSE 1
    IN  <<(s * n) \div g, (s * d) \div g>>

R(n) == <<n, 1>>

Null == <<0, 0>>

IsNull(a) == a[2] = 0

RAdd(a, b) == Rat(a[1] * b[2] + b[1] * a[2], a[2] * b[2])
RSub(a, b) == Rat(a[1] * b[2] - b[1] * a[2], a[2] * b[2])
RMul(a, b) == Rat(a[1] * b[1], a[2] * b[2])
RDiv(a, b) == Rat(a[1] * b[2], a[2] * b[1])
RAbs(a) == <<Abs(a[1]), a[2]>>
RLt(a, b) == a[1] * b[2] < b[1] * a[2]
RLe(a, b) == a[1] * b[2] <= b[1] * a[2]
RMin(a, b) == IF RLe(a, b) THEN a ELSE b
RMax(a, b) == IF RLe(a, b) THEN b ELSE a

----------------------------------------------------------------------------
(* ReadingModeManager: the font mapper.                                    *)

deadZoneRadius == R(2)
deadZoneStableTime == 1000
fontChangeThreshold == Rat(1, 2)
MinFontChange == Rat(2, 10)
MinFontSize == R(12)
MaxFontSize == R(32)

(* a multiplier that shrinks the font as the reader moves away *)
calculateFontSizeMultiplier_Inverted(distance) ==
    LET scale == Rat(3, 2)
        multiplier == RSub(R(1), RDiv(RMul(RMul(distance, scale), Rat(8, 10)), R(100)))
    IN  RMax(Rat(6, 10), RMin(Rat(25, 10), multiplier))

(* Math.max(0.6, Math.min(2.5, 1 + distance * 1.5 * 0.8 / 100)) *)
calculateFontSizeMultiplier(distance) ==
    LET scale == Rat(3, 2)
        multiplier == RAdd(R(1), RDiv(RMul(RMul(distance, scale), Rat(8, 10)), R(100)))
    IN  RMax(Rat(6, 10), RMin(Rat(25, 10), multiplier))

(* the clamp without its upper limit *)
ClampFontSize_NoUpper(size) == RMax(MinFontSize, size)

(* Math.max(12, Math.min(32, size)) *)
ClampFontSize(size) == RMax(MinFontSize, RMin(MaxFontSize, size))

(* a dead zone that excludes its boundary *)
InDeadZone_Strict(distance, center) == RLt(RAbs(RSub(distance, center)), deadZoneRadius)

(* distanceFromDeadZoneCenter <= this.deadZoneRadius *)
InDeadZone(distance, center) == RLe(RAbs(RSub(distance, center)), deadZoneRadius)

(* recentering already at exactly deadZoneStableTime *)
DeadZoneStable_AtLeast(currentTime, lastChange) == currentTime - lastChange >= deadZoneStableTime

(* currentTime - this.lastDistanceChangeTime > this.deadZoneStableTime *)
DeadZoneStable(currentTime, lastChange) == currentTime - lastChange > deadZoneStableTime

(* distanceChange >= this.fontChangeThreshold *)
DistanceChangeSufficient(distance, lastStable) ==
    RLe(fontChangeThreshold, RAbs(RSub(distance, lastStable)))

(* the font change measured from the base size instead of the current one *)
FontChangeSufficient_FromBase(newFontSize, current) ==
    RLe(MinFontChange, RAbs(RSub(newFontSize, baseFontSize)))

(* fontSizeChange >= 0.2 *)
FontChangeSufficient(newFontSize, current) ==
    RLe(MinFontChange, RAbs(RSub(newFontSize, current)))

(* The font-mapper fields after handleStableFontAdjustment(distance) at    *)
(* time currentTime, for a numeric distance.                               *)
handleStableFontAdjustment(distance, currentTime) ==
    LET same == [currentFontSize |-> currentFontSize,
                 lastStableDistance |-> lastStableDistance,
                 deadZoneCenter |-> deadZoneCenter,
                 lastDistanceChangeTime |-> lastDistanceChangeTime]
        center == IF DeadZoneStable(currentTime, lastDistanceChangeTime)
                  THEN distance ELSE deadZoneCenter
        moved == [same EXCEPT !.deadZoneCenter = center,
                              !.lastDistanceChangeTime = currentTime]
        newFontSize == ClampFontSize(RMul(baseFontSize, calculateFontSizeMultiplier(distance)))
    IN  IF InDeadZone(distance, deadZoneCenter) THEN same
        ELSE IF ~DistanceChangeSufficient(distance, lastStableDistance) THEN moved
        ELSE IF ~FontChangeSufficient(newFontSize, currentFontSize) THEN moved
        ELSE [moved EXCEPT !.currentFontSize = newFontSize,
                           !.lastStableDistance = distance]

(* currentBackgroundColor and currentTextColor are the base colors: no     *)
(* target ratio has been applied                                           *)
BaseColors == <<0, 0>>

(* a target ratio normalized over a window of 1 instead of 0.5 *)
calculateContrastAdjustment_WideWindow(distance) ==
    LET normalizedDistance == RDiv(RMul(distance, R(2)), R(100))
        minRatio == Rat(35, 10)
        maxRatio == R(9)
        baseRatio == R(6)
        targetRatio ==
            IF RLe(normalizedDistance, R(0))
            THEN LET factor == RMax(R(-1), normalizedDistance)
                 IN  RAdd(baseRatio, RMul(RSub(minRatio, baseRatio), RAbs(factor)))
            ELSE LET factor == RMin(R(1), normalizedDistance)
                 IN  RAdd(baseRatio, RMul(RSub(maxRatio, baseRatio), factor))
    IN  RMax(minRatio, RMin(maxRatio, targetRatio))

(* calculateContrastAdjustment: target contrast ratio for a numeric distance *)
calculateContrastAdjustment(distance) ==
    LET normalizedDistance == RDiv(RMul(distance, R(2)), R(100))
        minRatio == Rat(35, 10)
        maxRatio == R(9)
        baseRatio == R(6)
        half == Rat(1, 2)
        targetRatio ==
            IF RLe(normalizedDistance, R(0))
            THEN LET factor == RMax(R(-1), RDiv(normalizedDistance, half))
                 IN  RAdd(baseRatio, RMul(RSub(minRatio, baseRatio), RAbs(factor)))
            ELSE LET factor == RMin(R(1), RDiv(normalizedDistance, half))
                 IN  RAdd(baseRatio, RMul(RSub(maxRatio, baseRatio), factor))
    IN  RMax(minRatio, RMin(maxRatio, targetRatio))

----------------------------------------------------------------------------
(* MediaPipeDistanceDetector.                                              *)

smoothingWindow == 5
distanceScale == 100
imageWidth == 640
imageHeight == 480
targetFaceRatio == Rat(1, 2)
positionTolerance == Rat(2, 10)
NoFaceGrace == 500

maxHistorySize == smoothingWindow

(* A frame's landmark set: the coordinates calculateFaceMetrics reads      *)
(* (landmarks 234 and 454 in x, 10 and 152 in y), normalized to [0, 1].    *)
Landmarks(leftEarX, rightEarX, foreheadY, chinY) ==
    [leftEarX |-> leftEarX, rightEarX |-> rightEarX,
     foreheadY |-> foreheadY, chinY |-> chinY]

(* metrics without Math.abs on the width and the height *)
calculateFaceMetrics_Signed(landmarks, width, height, timestamp) ==
    LET faceWidth == RMul(RSub(landmarks.rightEarX, landmarks.leftEarX), R(width))
        faceHeight == RMul(RSub(landmarks.chinY, landmarks.foreheadY), R(height))
        faceCenterX == RDiv(RAdd(landmarks.rightEarX, landmarks.leftEarX), R(2))
        faceCenterY == RDiv(RAdd(landmarks.chinY, landmarks.foreheadY), R(2))
    IN  [faceWidth |-> faceWidth,
         faceHeight |-> faceHeight,
         faceWidthToImageRatio |-> RDiv(faceWidth, R(width)),
         faceHeightToImageRatio |-> RDiv(faceHeight, R(height)),
         faceCenterX |-> RMul(RSub(faceCenterX, Rat(1, 2)), R(2)),
         faceCenterY |-> RMul(RSub(faceCenterY, Rat(1, 2)), R(2)),
         imageWidth |-> width,
         imageHeight |-> height,
         timestamp |-> timestamp]

calculateFaceMetrics(landmarks, width, height, timestamp) ==
    LET faceWidth == RAbs(RMul(RSub(landmarks.rightEarX, landmarks.leftEarX), R(width)))
        faceHeight == RAbs(RMul(RSub(landmarks.chinY, landmarks.foreheadY), R(height)))
        faceCenterX == RDiv(RAdd(landmarks.rightEarX, landmarks.leftEarX), R(2))
        faceCenterY == RDiv(RAdd(landmarks.chinY, landmarks.foreheadY), R(2))
    IN  [faceWidth |-> faceWidth,
         faceHeight |-> faceHeight,
         faceWidthToImageRatio |-> RDiv(faceWidth, R(width)),
         faceHeightToImageRatio |-> RDiv(faceHeight, R(height)),
         faceCenterX |-> RMul(RSub(faceCenterX, Rat(1, 2)), R(2)),
         faceCenterY |-> RMul(RSub(faceCenterY, Rat(1, 2)), R(2)),
         imageWidth |-> width,
         imageHeight |-> height,
         timestamp |-> timestamp]

(* getSmoothedFaceMetrics() returning null *)
NoMetrics ==
    [faceWidth |-> Null, faceHeight |-> Null, faceWidthToImageRatio |-> Null,
     faceHeightToImageRatio |-> Null, faceCenterX |-> Null, faceCenterY |-> Null,
     imageWidth |-> 0, imageHeight |-> 0, timestamp |-> 0]

(* push, then shift while longer than maxHistorySize *)
RECURSIVE ShiftWhileLonger(_, _)
ShiftWhileLonger(history, size) ==
    IF Len(history) > size THEN ShiftWhileLonger(Tail(history), size) ELSE history

(* a buffer that is never shortened *)
addToFaceHistory_NoShift(history, metrics) == Append(history, metrics)

addToFaceHistory(history, metrics) == ShiftWhileLonger(Append(history, metrics), maxHistorySize)

RECURSIVE RSum(_)
RSum(seq) == IF seq = <<>> THEN R(0) ELSE RAdd(Head(seq), RSum(Tail(seq)))

(* the newest sample instead of the mean *)
getSmoothedFaceMetrics_Last(history) ==
    IF Len(history) = 0 THEN NoMetrics ELSE history[Len(history)]

getSmoothedFaceMetrics(history) ==
    IF Len(history) = 0 THEN NoMetrics
    ELSE LET count == Len(history)
             Mean(field) == RDiv(RSum([i \in 1..count |-> history[i][field]]), R(count))
         IN  [faceWidth |-> Mean("faceWidth"),
              faceHeight |-> Mean("faceHeight"),
              faceWidthToImageRatio |-> Mean("faceWidthToImageRatio"),
              faceHeightToImageRatio |-> Mean("faceHeightToImageRatio"),
              faceCenterX |-> Mean("faceCenterX"),
              faceCenterY |-> Mean("faceCenterY"),
              imageWidth |-> history[count].imageWidth,
              imageHeight |-> history[count].imageHeight,
              timestamp |-> history[count].timestamp]

(* a classifier that looks at the face ratio only *)
ClassifyAlignment_RatioOnly(faceMetrics) ==
    IF faceMetrics = NoMetrics THEN "no-face"
    ELSE LET idealFaceRatio == targetFaceRatio
             currentFaceRatio == faceMetrics.faceWidthToImageRatio
             isTooFar == RLt(currentFaceRatio,
                             RSub(idealFaceRatio, RMul(idealFaceRatio, Rat(1, 2))))
             isTooClose == RLt(RAdd(idealFaceRatio, RMul(idealFaceRatio, Rat(1, 2))),
                               currentFaceRatio)
         IN  IF isTooFar THEN "too-far"
             ELSE IF isTooClose THEN "too-close"
             ELSE "good"

(* the classifier with the too-far and too-right limits included *)
ClassifyAlignment_NonStrict(faceMetrics) ==
    IF faceMetrics = NoMetrics THEN "no-face"
    ELSE LET idealFaceRatio == targetFaceRatio
             currentFaceRatio == faceMetrics.faceWidthToImageRatio
             posTolerance == positionTolerance
             isTooLeft == RLt(faceMetrics.faceCenterX, RSub(R(0), posTolerance))
             isTooRight == RLe(posTolerance, faceMetrics.faceCenterX)
             isTooHigh == RLt(faceMetrics.faceCenterY, RSub(R(0), posTolerance))
             isTooLow == RLt(posTolerance, faceMetrics.faceCenterY)
             isTooFar == RLe(currentFaceRatio,
                             RSub(idealFaceRatio, RMul(idealFaceRatio, Rat(1, 2))))
             isTooClose == RLt(RAdd(idealFaceRatio, RMul(idealFaceRatio, Rat(1, 2))),
                               currentFaceRatio)
         IN  IF isTooFar THEN "too-far"
             ELSE IF isTooClose THEN "too-close"
             ELSE IF isTooLeft THEN "too-left"
             ELSE IF isTooRight THEN "too-right"
             ELSE IF isTooHigh THEN "too-high"
             ELSE IF isTooLow THEN "too-low"
             ELSE "good"

(* checkCalibrationFrameAlignment, lines 312-352: the status decision *)
ClassifyAlignment(faceMetrics) ==
    IF faceMetrics = NoMetrics THEN "no-face"
    ELSE LET idealFaceRatio == targetFaceRatio
             currentFaceRatio == faceMetrics.faceWidthToImageRatio
             posTolerance == positionTolerance
             isTooLeft == RLt(faceMetrics.faceCenterX, RSub(R(0), posTolerance))
             isTooRight == RLt(posTolerance, faceMetrics.faceCenterX)
             isTooHigh == RLt(faceMetrics.faceCenterY, RSub(R(0), posTolerance))
             isTooLow == RLt(posTolerance, faceMetrics.faceCenterY)
             isTooFar == RLt(currentFaceRatio,
                             RSub(idealFaceRatio, RMul(idealFaceRatio, Rat(1, 2))))
             isTooClose == RLt(RAdd(idealFaceRatio, RMul(idealFaceRatio, Rat(1, 2))),
                               currentFaceRatio)
         IN  IF isTooFar THEN "too-far"
             ELSE IF isTooClose THEN "too-close"
             ELSE IF isTooLeft THEN "too-left"
             ELSE IF isTooRight THEN "too-right"
             ELSE IF isTooHigh THEN "too-high"
             ELSE IF isTooLow THEN "too-low"
             ELSE "good"

(* statusStabilityCounter >= statusStabilityThreshold *)
StatusStable(counter, threshold) == counter >= threshold

(* checkCalibrationFrameAlignment, lines 365-398: the debounce.  The       *)
(* classifier fields after the call and the notification it delivers.      *)
Debounce(status) ==
    IF lastCalibrationStatus # status
    THEN [lastCalibrationStatus |-> status, statusStabilityCounter |-> 0,
          notified |-> "none"]
    ELSE [lastCalibrationStatus |-> lastCalibrationStatus,
          statusStabilityCounter |-> statusStabilityCounter + 1,
          notified |-> IF StatusStable(statusStabilityCounter + 1, statusStabilityThreshold)
                       THEN status ELSE "none"]

Uncalibrated ==
    [isCalibrated |-> FALSE, referenceFaceWidth |-> Null, referenceFontSize |-> Null,
     timestamp |-> 0]

(* the distance taken from the ratio itself instead of its inverse *)
calculateRelativeDistance_Direct(faceMetrics) ==
    IF ~calibration.isCalibrated \/ faceMetrics = NoMetrics
    THEN [distance |-> R(0), offset |-> R(0), distanceRatio |-> R(1),
          faceWidth |-> IF faceMetrics = NoMetrics THEN R(0) ELSE faceMetrics.faceWidth,
          isCalibrated |-> FALSE]
    ELSE LET ratio == RDiv(faceMetrics.faceWidth, calibration.referenceFaceWidth)
             relativeDistance == RMul(RSub(ratio, R(1)), R(distanceScale))
         IN  [distance |-> relativeDistance, offset |-> relativeDistance,
              distanceRatio |-> ratio, faceWidth |-> faceMetrics.faceWidth,
              isCalibrated |-> TRUE]

(* the neutral sample carrying the detector's calibration flag *)
calculateRelativeDistance_FlagKept(faceMetrics) ==
    IF ~calibration.isCalibrated \/ faceMetrics = NoMetrics
    THEN [distance |-> R(0), offset |-> R(0), distanceRatio |-> R(1),
          faceWidth |-> IF faceMetrics = NoMetrics THEN R(0) ELSE faceMetrics.faceWidth,
          isCalibrated |-> calibration.isCalibrated]
    ELSE LET ratio == RDiv(faceMetrics.faceWidth, calibration.referenceFaceWidth)
             relativeDistance == RMul(RSub(RDiv(R(1), ratio), R(1)), R(distanceScale))
         IN  [distance |-> relativeDistance, offset |-> relativeDistance,
              distanceRatio |-> ratio, faceWidth |-> faceMetrics.faceWidth,
              isCalibrated |-> TRUE]

(* calculateRelativeDistance for non-null metrics *)
calculateRelativeDistance(faceMetrics) ==
    IF ~calibration.isCalibrated \/ faceMetrics = NoMetrics
    THEN [distance |-> R(0), offset |-> R(0), distanceRatio |-> R(1),
          faceWidth |-> IF faceMetrics = NoMetrics THEN R(0) ELSE faceMetrics.faceWidth,
          isCalibrated |-> FALSE]
    ELSE LET ratio == RDiv(faceMetrics.faceWidth, calibration.referenceFaceWidth)
             relativeDistance == RMul(RSub(RDiv(R(1), ratio), R(1)), R(distanceScale))
         IN  [distance |-> relativeDistance, offset |-> relativeDistance,
              distanceRatio |-> ratio, faceWidth |-> faceMetrics.faceWidth,
              isCalibrated |-> TRUE]

(* the sample processFaceMeshResults hands to onDistanceUpdate *)
FaceSample(smoothedMetrics, alignmentStatus) ==
    LET distanceData == calculateRelativeDistance(smoothedMetrics)
    IN  [distance |-> distanceData.distance, offset |-> distanceData.offset,
         distanceRatio |-> distanceData.distanceRatio, faceWidth |-> distanceData.faceWidth,
         isCalibrated |-> distanceData.isCalibrated,
         alignmentStatus |-> alignmentStatus, faceDetected |-> TRUE]

(* the sample handleNoFaceDetected hands to onDistanceUpdate *)
NoFaceSample ==
    [distance |-> Null, offset |-> Null, distanceRatio |-> Null, faceWidth |-> R(0),
     isCalibrated |-> calibration.isCalibrated,
     alignmentStatus |-> "no-face", faceDetected |-> FALSE]

(* a grace period that only runs from a buffered sample *)
GraceExpired_NeedsSample(currentTime, history) ==
    /\ Len(history) > 0
    /\ currentTime - history[Len(history)].timestamp > NoFaceGrace

(* a grace period that has expired at exactly 500 ms *)
GraceExpired_AtLeast(currentTime, history) ==
    LET lastDetectedFace == IF Len(history) > 0 THEN history[Len(history)].timestamp ELSE 0
    IN  currentTime - lastDetectedFace >= NoFaceGrace

(* Date.now() - lastDetectedFace > 500 *)
GraceExpired(currentTime, history) ==
    LET lastDetectedFace == IF Len(history) > 0 THEN history[Len(history)].timestamp ELSE 0
    IN  currentTime - lastDetectedFace > NoFaceGrace


----------------------------------------------------------------------------
(* Persistent store records.                                               *)

(* A value of localStorage["mediapipe-calibration"], or an argument of     *)
(* loadCalibration: absent, a string JSON.parse rejects, a parsed value    *)
(* that is no object, or an object with some of the three fields           *)
(* (referenceFontSize Null and timestamp 0 stand for a missing field).     *)
CalibrationData(present, parses, isObject, hasWidth, width, fontSize, timestamp) ==
    [present |-> present, parses |-> parses, isObject |-> isObject, hasWidth |-> hasWidth,
     referenceFaceWidth |-> width, referenceFontSize |-> fontSize, timestamp |-> timestamp]

AbsentData == CalibrationData(FALSE, FALSE, FALSE, FALSE, Null, Null, 0)
UnparseableData == CalibrationData(TRUE, FALSE, FALSE, FALSE, Null, Null, 0)
NonObjectData == CalibrationData(TRUE, TRUE, FALSE, FALSE, Null, Null, 0)

(* a number after JSON.stringify and JSON.parse: finite numbers come back  *)
(* as they were, NaN and the infinities (and null) come back as null       *)
JSONNumber(x) == IF x[2] = 0 THEN Null ELSE x

(* a stored record that always carries the default font size *)
StoredRecord_DefaultFont(width, fontSize, timestamp) ==
    CalibrationData(TRUE, TRUE, TRUE, TRUE, JSONNumber(width), R(16), timestamp)

(* JSON.stringify(record) as later read back by JSON.parse *)
StoredRecord(width, fontSize, timestamp) ==
    CalibrationData(TRUE, TRUE, TRUE, TRUE, JSONNumber(width), JSONNumber(fontSize),
                    timestamp)

(* a getCalibration() that always has a record to return *)
HasCalibrationData_Always(data) == TRUE

(* CalibrationManager.getCalibration() returned a truthy value *)
HasCalibrationData(data) == data.present /\ data.parses

(* the default font size whatever the record holds *)
ReferenceFontSizeOrDefault_Always(data) == R(16)

(* calibrationData.referenceFontSize || 16 *)
ReferenceFontSizeOrDefault(data) ==
    IF data.present /\ data.parses /\ data.isObject
       /\ ~IsNull(data.referenceFontSize) /\ data.referenceFontSize # R(0)
    THEN data.referenceFontSize ELSE R(16)

(* acceptance without the timestamp test *)
LoadAccepts_NoTimestamp(data) ==
    /\ data.present /\ data.parses /\ data.isObject
    /\ data.hasWidth

(* loadCalibration accepts the data *)
LoadAccepts(data) ==
    /\ data.present /\ data.parses /\ data.isObject
    /\ data.hasWidth
    /\ data.timestamp # 0

----------------------------------------------------------------------------
(* Operations of MediaPipeDistanceDetector.                                *)

RunAfter(status) == IF frameStatus = status THEN frameRun + 1 ELSE 1

lifeVars == <<isInitialized, video, isRunning, faceMeshClosed>>

(* initialize(), the FaceMesh model loading *)
Initialize ==
    /\ ~isInitialized
    /\ isInitialized' = TRUE
    /\ op' = "initialize"
    /\ args' = <<>>
    /\ delivered' = <<>> /\ notified' = "none" /\ returned' = "true"
    /\ UNCHANGED <<now, mgrVars, dlgVars, sesVars, faceHistory, calibration, lastCalibrationStatus,
                   statusStabilityCounter, statusStabilityThreshold, video, isRunning,
                   faceMeshClosed, storedCalibration, frameNo, frameStatus, frameRun>>

(* startCamera(), getUserMedia granting a stream; the owners call it once, *)
(* right after initialize(), and drop a detector they have cleaned up      *)
StartCamera ==
    /\ isInitialized /\ ~video /\ ~faceMeshClosed
    /\ video' = TRUE
    /\ op' = "startCamera"
    /\ args' = <<>>
    /\ delivered' = <<>> /\ notified' = "none" /\ returned' = "true"
    /\ UNCHANGED <<now, mgrVars, dlgVars, sesVars, faceHistory, calibration, lastCalibrationStatus,
                   statusStabilityCounter, statusStabilityThreshold, isInitialized, isRunning,
                   faceMeshClosed, storedCalibration, frameNo, frameStatus, frameRun>>

(* startDetectionLoop(), past its isInitialized and video check *)
StartDetectionLoop ==
    /\ isInitialized /\ video
    /\ ~isRunning
    /\ isRunning' = TRUE
    /\ op' = "startDetectionLoop"
    /\ args' = <<>>
    /\ delivered' = <<>> /\ notified' = "none" /\ returned' = "true"
    /\ UNCHANGED <<now, mgrVars, dlgVars, sesVars, faceHistory, calibration, lastCalibrationStatus,
                   statusStabilityCounter, statusStabilityThreshold, isInitialized, video,
                   faceMeshClosed, storedCalibration, frameNo, frameStatus, frameRun>>

(* stopCamera(): the tracks of the stream are stopped and this.video is    *)
(* dropped; isRunning is left as it is                                     *)
StopCamera ==
    /\ video
    /\ video' = FALSE
    /\ op' = "stopCamera"
    /\ args' = <<>>
    /\ delivered' = <<>> /\ notified' = "none" /\ returned' = "none"
    /\ UNCHANGED <<now, mgrVars, dlgVars, sesVars, faceHistory, calibration, lastCalibrationStatus,
                   statusStabilityCounter, statusStabilityThreshold, isInitialized, isRunning,
                   faceMeshClosed, storedCalibration, frameNo, frameStatus, frameRun>>

(* cleanup() *)
Cleanup ==
    /\ isInitialized /\ ~faceMeshClosed
    /\ isRunning' = FALSE
    /\ faceMeshClosed' = TRUE
    /\ video' = FALSE
    /\ faceHistory' = <<>>
    /\ op' = "cleanup"
    /\ args' = <<>>
    /\ delivered' = <<>> /\ notified' = "none" /\ returned' = "none"
    /\ UNCHANGED <<now, mgrVars, dlgVars, sesVars, calibration, lastCalibrationStatus, statusStabilityCounter,
                   statusStabilityThreshold, isInitialized, storedCalibration,
                   frameNo, frameStatus, frameRun>>

(* a call of calculateFaceMetrics(landmarks, imageWidth, imageHeight) *)
FaceMetrics(landmarks, width, height) ==
    /\ returned' = calculateFaceMetrics(landmarks, width, height, now)
    /\ op' = "calculateFaceMetrics"
    /\ args' = <<landmarks, width, height>>
    /\ delivered' = <<>> /\ notified' = "none"
    /\ UNCHANGED <<now, mgrVars, detVars, dlgVars, sesVars, frameNo, frameStatus, frameRun>>

(* processFaceMeshResults while !isRunning (a result still in flight when  *)
(* cleanup ran): returns at once                                           *)
IgnoredFrame(dt) ==
    /\ ~isRunning /\ faceMeshClosed
    /\ now' = now + dt
    /\ frameNo' = frameNo + 1
    /\ op' = "ignoredFrame"
    /\ args' = <<>>
    /\ delivered' = <<>> /\ notified' = "none" /\ returned' = "none"
    /\ UNCHANGED <<mgrVars, dlgVars, sesVars, detVars, frameStatus, frameRun>>

(* processFaceMeshResults with a face in the frame: the detector's part *)
faceFrame(landmarks, dt) ==
    /\ isRunning
    /\ now' = now + dt
    /\ \E faceMetrics \in {calculateFaceMetrics(landmarks, imageWidth, imageHeight, now + dt)} :
       \E history \in {addToFaceHistory(faceHistory, faceMetrics)} :
       \E smoothedMetrics \in {getSmoothedFaceMetrics(history)} :
       \E alignmentStatus \in {ClassifyAlignment(smoothedMetrics)} :
       \E debounce \in {Debounce(alignmentStatus)} :
           /\ faceHistory' = history
           /\ lastCalibrationStatus' = debounce.lastCalibrationStatus
           /\ statusStabilityCounter' = debounce.statusStabilityCounter
           /\ notified' = debounce.notified
           /\ delivered' = <<FaceSample(smoothedMetrics, alignmentStatus)>>
           /\ returned' = alignmentStatus
           /\ frameStatus' = alignmentStatus
           /\ frameRun' = RunAfter(alignmentStatus)
    /\ frameNo' = frameNo + 1
    /\ op' = "faceFrame"
    /\ args' = <<landmarks>>
    /\ UNCHANGED <<mgrVars, sesVars, calibration, statusStabilityThreshold, lifeVars,
                   storedCalibration>>

(* processFaceMeshResults with a face in the frame *)
ProcessFace(landmarks, dt) ==
    /\ faceFrame(landmarks, dt)
    /\ UNCHANGED dlgVars

(* processFaceMeshResults with no face in the frame: handleNoFaceDetected, *)
(* the detector's part                                                    *)
noFaceFrame(dt) ==
    /\ isRunning
    /\ now' = now + dt
    /\ IF GraceExpired(now + dt, faceHistory)
       THEN /\ faceHistory' = <<>>
            /\ delivered' = <<NoFaceSample>>
            /\ notified' = "no-face"
       ELSE /\ faceHistory' = faceHistory
            /\ delivered' = <<>>
            /\ notified' = "none"
    /\ returned' = "none"
    /\ frameStatus' = "no-face"
    /\ frameRun' = RunAfter("no-face")
    /\ frameNo' = frameNo + 1
    /\ op' = "noFaceFrame"
    /\ args' = <<>>
    /\ UNCHANGED <<mgrVars, sesVars, calibration, lastCalibrationStatus, statusStabilityCounter,
                   statusStabilityThreshold, isInitialized, video, isRunning, faceMeshClosed,
                   storedCalibration>>

(* processFaceMeshResults with no face in the frame: handleNoFaceDetected *)
ProcessNoFace(dt) ==
    /\ noFaceFrame(dt)
    /\ UNCHANGED dlgVars

(* calibrate(fontSize): the method itself *)
calibrate(fontSize) ==
    /\ \E metrics \in {getSmoothedFaceMetrics(faceHistory)} :
       \E alignmentStatus \in {ClassifyAlignment(metrics)} :
       \E debounce \in {Debounce(alignmentStatus)} :
           IF metrics = NoMetrics
           THEN /\ returned' = "throw"
                /\ notified' = "none"
                /\ UNCHANGED <<lastCalibrationStatus, statusStabilityCounter, calibration,
                               storedCalibration>>
           ELSE /\ lastCalibrationStatus' = debounce.lastCalibrationStatus
                /\ statusStabilityCounter' = debounce.statusStabilityCounter
                /\ notified' = debounce.notified
                /\ IF alignmentStatus # "good"
                   THEN /\ returned' = "throw"
                        /\ UNCHANGED <<calibration, storedCalibration>>
                   ELSE /\ calibration' = [isCalibrated |-> TRUE,
                                           referenceFaceWidth |-> metrics.faceWidth,
                                           referenceFontSize |-> fontSize,
                                           timestamp |-> now]
                        /\ storedCalibration' = StoredRecord(metrics.faceWidth, fontSize, now)
                        /\ returned' = "calibration"
    /\ op' = "calibrate"
    /\ args' = <<fontSize>>
    /\ delivered' = <<>>
    /\ UNCHANGED <<now, mgrVars, sesVars, faceHistory, statusStabilityThreshold, lifeVars,
                   frameNo, frameStatus, frameRun>>

(* a call of calibrate(fontSize) *)
Calibrate(fontSize) ==
    /\ calibrate(fontSize)
    /\ UNCHANGED dlgVars

(* loadCalibration(calibrationData) *)
LoadCalibration(data) ==
    /\ IF LoadAccepts(data)
       THEN /\ calibration' = [isCalibrated |-> TRUE,
                               referenceFaceWidth |-> data.referenceFaceWidth,
                               referenceFontSize |-> ReferenceFontSizeOrDefault(data),
                               timestamp |-> data.timestamp]
            /\ returned' = "true"
       ELSE /\ calibration' = calibration
            /\ returned' = "false"
    /\ op' = "loadCalibration"
    /\ args' = <<data>>
    /\ delivered' = <<>> /\ notified' = "none"
    /\ UNCHANGED <<now, mgrVars, dlgVars, sesVars, faceHistory, lastCalibrationStatus, statusStabilityCounter,
                   statusStabilityThreshold, lifeVars, storedCalibration,
                   frameNo, frameStatus, frameRun>>


(* new MediaPipeDistanceDetector(config): the owner replaces its detector  *)
(* by a fresh one with the given statusStabilityThreshold                  *)
NewDetector(threshold) ==
    /\ faceHistory' = <<>>
    /\ calibration' = Uncalibrated
    /\ lastCalibrationStatus' = "null"
    /\ statusStabilityCounter' = 0
    /\ statusStabilityThreshold' = threshold
    /\ isInitialized' = FALSE
    /\ video' = FALSE
    /\ isRunning' = FALSE
    /\ faceMeshClosed' = FALSE
    /\ op' = "newDetector"
    /\ args' = <<threshold>>
    /\ delivered' = <<>> /\ notified' = "none" /\ returned' = "none"
    /\ UNCHANGED <<now, mgrVars, dlgVars, sesVars, storedCalibration, frameNo, frameStatus, frameRun>>

----------------------------------------------------------------------------
(* Operations of CalibrationDialogManager on its detector.                 *)

(* checkExistingCalibration(): this.calibrationData after the dialog opened *)
ExistingCalibration(data) == IF data.present /\ data.parses THEN data ELSE AbsentData

(* completeCalibration(): calibrate(this.baseFontSizeValue), and on success *)
(* the three fields of the result are kept in this.calibrationData; in     *)
(* either case isCalibrating is cleared and the start button enabled       *)
completeCalibration(fontSize) ==
    /\ calibrate(fontSize)
    /\ calibrationData' =
           IF returned' = "calibration"
           THEN CalibrationData(TRUE, TRUE, TRUE, TRUE, calibration'.referenceFaceWidth,
                                calibration'.referenceFontSize, calibration'.timestamp)
           ELSE calibrationData
    /\ isCalibrating' = FALSE
    /\ startCalibrationBtnDisabled' = FALSE

(* a call of completeCalibration() *)
CompleteCalibration(fontSize) ==
    /\ completeCalibration(fontSize)
    /\ UNCHANGED countdowns

(* onCalibrationFrameStatus(status) of the dialog: the start button is     *)
(* enabled by a "good" notification and disabled by any other              *)
onCalibrationFrameStatus(status) ==
    startCalibrationBtnDisabled' =
        IF status = "none" THEN startCalibrationBtnDisabled ELSE status # "good"

(* a frame with a face reaches the dialog's detector, whose notification,  *)
(* if it delivers one, runs the dialog's onCalibrationFrameStatus          *)
DialogFaceFrame(landmarks, dt) ==
    /\ \A i \in 1..Len(countdowns) : now + dt <= countdowns[i].due
    /\ faceFrame(landmarks, dt)
    /\ onCalibrationFrameStatus(notified')
    /\ UNCHANGED <<calibrationData, isCalibrating, countdowns>>

(* a frame without a face reaches the dialog's detector *)
DialogNoFaceFrame(dt) ==
    /\ \A i \in 1..Len(countdowns) : now + dt <= countdowns[i].due
    /\ noFaceFrame(dt)
    /\ onCalibrationFrameStatus(notified')
    /\ UNCHANGED <<calibrationData, isCalibrating, countdowns>>

(* a click on the start-calibration button, which is possible while the    *)
(* button is enabled: startCalibration() sets isCalibrating, disables the  *)
(* button and starts a countdown with setInterval(..., 1000)               *)
StartCalibration ==
    /\ ~startCalibrationBtnDisabled
    /\ isCalibrating' = TRUE
    /\ startCalibrationBtnDisabled' = TRUE
    /\ countdowns' = Append(countdowns, [countdown |-> 3, due |-> now + 1000])
    /\ op' = "startCalibration"
    /\ args' = <<>>
    /\ delivered' = <<>> /\ notified' = "none" /\ returned' = "none"
    /\ UNCHANGED <<now, mgrVars, detVars, sesVars, calibrationData,
                   frameNo, frameStatus, frameRun>>

(* the countdown whose callback runs next: the one due first, the older    *)
(* one of two that are due together                                        *)
NextCountdown ==
    CHOOSE i \in 1..Len(countdowns) :
        \A j \in 1..Len(countdowns) :
            \/ countdowns[i].due < countdowns[j].due
            \/ countdowns[i].due = countdowns[j].due /\ i <= j

(* nothing happens until the next countdown callback is due *)
CountdownWait ==
    /\ countdowns # <<>>
    /\ now < countdowns[NextCountdown].due
    /\ now' = countdowns[NextCountdown].due
    /\ op' = "countdownWait"
    /\ args' = <<>>
    /\ delivered' = <<>> /\ notified' = "none" /\ returned' = "none"
    /\ UNCHANGED <<mgrVars, detVars, dlgVars, sesVars, frameNo, frameStatus, frameRun>>

(* the interval callback of startCalibration: countdown--, and below zero  *)
(* clearInterval and completeCalibration()                                 *)
CountdownTick(fontSize) ==
    /\ countdowns # <<>>
    /\ countdowns[NextCountdown].due <= now
    /\ LET i == NextCountdown
       IN  IF countdowns[i].countdown - 1 < 0
           THEN /\ completeCalibration(fontSize)
                /\ countdowns' = SubSeq(countdowns, 1, i - 1)
                                     \o SubSeq(countdowns, i + 1, Len(countdowns))
           ELSE /\ countdowns' = [countdowns EXCEPT
                                      ![i] = [countdown |-> @.countdown - 1,
                                              due |-> @.due + 1000]]
                /\ op' = "countdownTick"
                /\ args' = <<>>
                /\ delivered' = <<>> /\ notified' = "none" /\ returned' = "none"
                /\ UNCHANGED <<now, mgrVars, detVars, sesVars, calibrationData, isCalibrating,
                               startCalibrationBtnDisabled, frameNo, frameStatus, frameRun>>

(* saveCalibration() *)
SaveCalibration ==
    /\ storedCalibration' =
           IF calibrationData = AbsentData THEN storedCalibration
           ELSE IF calibrationData.isObject
                THEN [calibrationData EXCEPT
                          !.referenceFaceWidth = JSONNumber(calibrationData.referenceFaceWidth),
                          !.referenceFontSize = JSONNumber(calibrationData.referenceFontSize)]
                ELSE calibrationData
    /\ op' = "saveCalibration"
    /\ args' = <<>>
    /\ delivered' = <<>> /\ notified' = "none" /\ returned' = "none"
    /\ UNCHANGED <<now, mgrVars, dlgVars, sesVars, faceHistory, calibration, lastCalibrationStatus,
                   statusStabilityCounter, statusStabilityThreshold, lifeVars,
                   frameNo, frameStatus, frameRun>>

(* resetCalibration() *)
ResetCalibration ==
    /\ storedCalibration' = AbsentData
    /\ calibrationData' = AbsentData
    /\ calibration' = [isCalibrated |-> FALSE, referenceFaceWidth |-> Null,
                       referenceFontSize |-> Null, timestamp |-> 0]
    /\ op' = "resetCalibration"
    /\ args' = <<>>
    /\ delivered' = <<>> /\ notified' = "none" /\ returned' = "none"
    /\ UNCHANGED <<now, mgrVars, sesVars, btnVars, faceHistory, lastCalibrationStatus,
                   statusStabilityCounter, statusStabilityThreshold, lifeVars,
                   frameNo, frameStatus, frameRun>>

----------------------------------------------------------------------------
(* Operations of ReadingModeManager.  A handler is computed on a record of *)
(* the fields it touches; M is the record of their current values.  In     *)
(* these operations startDynamicFont and startDynamicContrast run to their *)
(* end with the model loaded and the camera granted.                       *)

M == [isReadingMode |-> isReadingMode,
      isDynamicFontEnabled |-> isDynamicFontEnabled,
      isDynamicContrastEnabled |-> isDynamicContrastEnabled,
      baseFontSize |-> baseFontSize,
      currentFontSize |-> currentFontSize,
      lastStableDistance |-> lastStableDistance,
      currentDistance |-> currentDistance,
      currentContrast |-> currentContrast,
      distanceDetector |-> distanceDetector,
      calibration |-> calibration,
      storedSettings |-> storedSettings]

(* a load that asks only for the reference width *)
LoadedCalibration_WidthOnly(data) ==
    IF data.present /\ data.parses /\ data.isObject /\ data.hasWidth
    THEN [isCalibrated |-> TRUE, referenceFaceWidth |-> data.referenceFaceWidth,
          referenceFontSize |-> ReferenceFontSizeOrDefault(data),
          timestamp |-> data.timestamp]
    ELSE Uncalibrated

(* the calibration of a fresh detector after loadCalibration(data) *)
LoadedCalibration(data) ==
    IF LoadAccepts(data)
    THEN [isCalibrated |-> TRUE, referenceFaceWidth |-> data.referenceFaceWidth,
          referenceFontSize |-> ReferenceFontSizeOrDefault(data),
          timestamp |-> data.timestamp]
    ELSE Uncalibrated

(* settings that are not written *)
saveSettings_Skipped(m) == m

(* saveSettings() *)
saveSettings(m) ==
    [m EXCEPT !.storedSettings = [present |-> TRUE,
                                  isDynamicFontEnabled |-> m.isDynamicFontEnabled,
                                  isDynamicContrastEnabled |-> m.isDynamicContrastEnabled]]

(* loadSettings(): the flags are taken from the stored record, if any *)
loadSettings(m) ==
    IF m.storedSettings.present
    THEN [m EXCEPT !.isDynamicFontEnabled = m.storedSettings.isDynamicFontEnabled,
                   !.isDynamicContrastEnabled = m.storedSettings.isDynamicContrastEnabled]
    ELSE m

(* showCalibrationRequiredDialog(): whichever feature asked, it is the     *)
(* dynamic-font checkbox that is cleared, and the settings are saved       *)
showCalibrationRequiredDialog(m) ==
    saveSettings([m EXCEPT !.isDynamicFontEnabled = FALSE])

startDynamicFont(m) ==
    IF ~m.isDynamicFontEnabled \/ ~m.isReadingMode THEN m
    ELSE IF ~HasCalibrationData(storedCalibration) THEN showCalibrationRequiredDialog(m)
    ELSE [m EXCEPT !.distanceDetector = 1,
                   !.calibration = LoadedCalibration(storedCalibration),
                   !.baseFontSize = ReferenceFontSizeOrDefault(storedCalibration),
                   !.currentFontSize = ReferenceFontSizeOrDefault(storedCalibration),
                   !.lastStableDistance = R(0),
                   !.currentDistance = R(0)]

(* a stop that keeps the last committed distance *)
stopDynamicFont_DistanceKept(m) ==
    LET reset == [m EXCEPT !.currentFontSize = m.baseFontSize,
                           !.currentDistance = R(0)]
    IN  IF ~m.isDynamicContrastEnabled /\ ~m.isDynamicFontEnabled
           /\ m.distanceDetector # 0
        THEN [reset EXCEPT !.distanceDetector = 0]
        ELSE reset

(* a stop that leaves the font where the last sample put it *)
stopDynamicFont_FontKept(m) ==
    LET reset == [m EXCEPT !.lastStableDistance = R(0),
                           !.currentDistance = R(0)]
    IN  IF ~m.isDynamicContrastEnabled /\ ~m.isDynamicFontEnabled
           /\ m.distanceDetector # 0
        THEN [reset EXCEPT !.distanceDetector = 0]
        ELSE reset

stopDynamicFont(m) ==
    LET reset == [m EXCEPT !.currentFontSize = m.baseFontSize,
                           !.lastStableDistance = R(0),
                           !.currentDistance = R(0)]
    IN  IF ~m.isDynamicContrastEnabled /\ ~m.isDynamicFontEnabled
           /\ m.distanceDetector # 0
        THEN [reset EXCEPT !.distanceDetector = 0]
        ELSE reset

startDynamicContrast(m) ==
    IF ~m.isDynamicContrastEnabled \/ ~m.isReadingMode THEN m
    ELSE LET based == [m EXCEPT !.currentContrast = BaseColors]
         IN  IF m.distanceDetector # 0 THEN based
             ELSE IF ~HasCalibrationData(storedCalibration)
                  THEN showCalibrationRequiredDialog(based)
             ELSE [based EXCEPT !.distanceDetector = 1,
                                !.calibration = LoadedCalibration(storedCalibration)]

stopDynamicContrast(m) ==
    LET reset == [m EXCEPT !.currentContrast = BaseColors]
    IN  IF ~m.isDynamicFontEnabled /\ ~m.isDynamicContrastEnabled
           /\ m.distanceDetector # 0
        THEN [reset EXCEPT !.distanceDetector = 0]
        ELSE reset

enterReadingMode(m) ==
    startDynamicContrast(startDynamicFont(
        [m EXCEPT !.isReadingMode = TRUE, !.currentContrast = BaseColors]))

(* exitReadingMode(), with the init() it schedules 100 ms later (the menu  *)
(* is rebuilt and loadSettings runs before the user can act again)         *)
exitReadingMode(m) ==
    LET stopped == stopDynamicContrast(stopDynamicFont([m EXCEPT !.isReadingMode = FALSE]))
    IN  loadSettings([stopped EXCEPT !.distanceDetector = 0])

(* the change handler of the dynamic-font checkbox *)
dynamicFontCheckboxChange(m, checked) ==
    LET saved == saveSettings([m EXCEPT !.isDynamicFontEnabled = checked])
    IN  IF ~saved.isReadingMode THEN saved
        ELSE IF checked THEN startDynamicFont(saved) ELSE stopDynamicFont(saved)

(* the change handler of the dynamic-contrast checkbox *)
dynamicContrastCheckboxChange(m, checked) ==
    LET saved == saveSettings([m EXCEPT !.isDynamicContrastEnabled = checked])
    IN  IF ~saved.isReadingMode THEN saved
        ELSE IF checked THEN startDynamicContrast(saved) ELSE stopDynamicContrast(saved)

(* a user action on the manager: its fields become those of record m *)
ManagerStep(name, m) ==
    /\ isReadingMode' = m.isReadingMode
    /\ isDynamicFontEnabled' = m.isDynamicFontEnabled
    /\ isDynamicContrastEnabled' = m.isDynamicContrastEnabled
    /\ baseFontSize' = m.baseFontSize
    /\ currentFontSize' = m.currentFontSize
    /\ lastStableDistance' = m.lastStableDistance
    /\ currentDistance' = m.currentDistance
    /\ currentContrast' = m.currentContrast
    /\ distanceDetector' = m.distanceDetector
    /\ calibration' = m.calibration
    /\ storedSettings' = m.storedSettings
    /\ managerError' = FALSE
    /\ op' = name
    /\ args' = <<>>
    /\ delivered' = <<>> /\ notified' = "none" /\ returned' = "none"
    /\ UNCHANGED <<now, dlgVars, sesVars, deadZoneCenter, lastDistanceChangeTime, faceHistory,
                   lastCalibrationStatus, statusStabilityCounter, statusStabilityThreshold,
                   lifeVars, storedCalibration, frameNo, frameStatus, frameRun>>

EnterReadingMode ==
    /\ ~isReadingMode
    /\ \E m \in {enterReadingMode(M)} : ManagerStep("enterReadingMode", m)

ExitReadingMode ==
    /\ isReadingMode
    /\ \E m \in {exitReadingMode(M)} : ManagerStep("exitReadingMode", m)

DynamicFontCheckbox ==
    \E m \in {dynamicFontCheckboxChange(M, ~isDynamicFontEnabled)} :
        ManagerStep("dynamicFontCheckbox", m)

DynamicContrastCheckbox ==
    \E m \in {dynamicContrastCheckboxChange(M, ~isDynamicContrastEnabled)} :
        ManagerStep("dynamicContrastCheckbox", m)

(* onDistanceUpdate without the test of isReadingMode *)
OnDistanceUpdate_AnyMode(distanceData, currentTime) ==
    LET offset == distanceData.offset
        throws == IsNull(offset) /\ (isDynamicFontEnabled \/ isDynamicContrastEnabled)
    IN  /\ currentDistance' = offset
        /\ managerError' = throws
        /\ IF throws \/ ~isDynamicFontEnabled
           THEN UNCHANGED <<currentFontSize, lastStableDistance, deadZoneCenter,
                            lastDistanceChangeTime>>
           ELSE \E font \in {handleStableFontAdjustment(offset, currentTime)} :
                   /\ currentFontSize' = font.currentFontSize
                   /\ lastStableDistance' = font.lastStableDistance
                   /\ deadZoneCenter' = font.deadZoneCenter
                   /\ lastDistanceChangeTime' = font.lastDistanceChangeTime
        /\ IF throws \/ ~isDynamicContrastEnabled
           THEN currentContrast' = currentContrast
           ELSE currentContrast' = calculateContrastAdjustment(offset)

(* onDistanceUpdate(distanceData) at time currentTime *)
OnDistanceUpdate(distanceData, currentTime) ==
    LET offset == distanceData.offset
        throws == IsNull(offset) /\ (isDynamicFontEnabled \/ isDynamicContrastEnabled)
    IN  IF ~isReadingMode
        THEN /\ managerError' = FALSE
             /\ UNCHANGED <<currentDistance, currentFontSize, lastStableDistance,
                            deadZoneCenter, lastDistanceChangeTime, currentContrast>>
        ELSE /\ currentDistance' = offset
             /\ managerError' = throws
             /\ IF throws \/ ~isDynamicFontEnabled
                THEN UNCHANGED <<currentFontSize, lastStableDistance, deadZoneCenter,
                                 lastDistanceChangeTime>>
                ELSE \E font \in {handleStableFontAdjustment(offset, currentTime)} :
                        /\ currentFontSize' = font.currentFontSize
                        /\ lastStableDistance' = font.lastStableDistance
                        /\ deadZoneCenter' = font.deadZoneCenter
                        /\ lastDistanceChangeTime' = font.lastDistanceChangeTime
             /\ IF throws \/ ~isDynamicContrastEnabled
                THEN currentContrast' = currentContrast
                ELSE currentContrast' = calculateContrastAdjustment(offset)

(* the smoothed metrics of a frame showing a face smoothedWidth px wide in *)
(* the middle of the image                                                 *)
CenteredMetrics(smoothedWidth, timestamp) ==
    [faceWidth |-> smoothedWidth,
     faceHeight |-> smoothedWidth,
     faceWidthToImageRatio |-> RDiv(smoothedWidth, R(imageWidth)),
     faceHeightToImageRatio |-> RDiv(smoothedWidth, R(imageHeight)),
     faceCenterX |-> R(0), faceCenterY |-> R(0),
     imageWidth |-> imageWidth, imageHeight |-> imageHeight, timestamp |-> timestamp]

(* a frame with a face reaches the session: its detector computes the      *)
(* sample from the smoothed metrics and calls the manager's onDistanceUpdate *)
SessionFaceFrame(smoothedWidth, dt) ==
    /\ distanceDetector # 0
    /\ now' = now + dt
    /\ \E metrics \in {CenteredMetrics(smoothedWidth, now + dt)} :
       \E sample \in {FaceSample(metrics, ClassifyAlignment(metrics))} :
           /\ delivered' = <<sample>>
           /\ OnDistanceUpdate(sample, now + dt)
    /\ op' = "sessionFaceFrame"
    /\ args' = <<smoothedWidth>>
    /\ notified' = "none" /\ returned' = "none"
    /\ frameNo' = frameNo + 1
    /\ UNCHANGED <<dlgVars, sesVars, isReadingMode, isDynamicFontEnabled, isDynamicContrastEnabled,
                   baseFontSize, distanceDetector, storedSettings, detVars,
                   frameStatus, frameRun>>

(* a frame without a face reaches the session after the grace period: the  *)
(* detector hands the no-face sample to the manager's onDistanceUpdate     *)
SessionNoFaceFrame(dt) ==
    /\ distanceDetector # 0
    /\ now' = now + dt
    /\ delivered' = <<NoFaceSample>>
    /\ OnDistanceUpdate(NoFaceSample, now + dt)
    /\ op' = "sessionNoFaceFrame"
    /\ args' = <<>>
    /\ notified' = "none" /\ returned' = "none"
    /\ frameNo' = frameNo + 1
    /\ UNCHANGED <<dlgVars, sesVars, isReadingMode, isDynamicFontEnabled, isDynamicContrastEnabled,
                   baseFontSize, distanceDetector, storedSettings, detVars,
                   frameStatus, frameRun>>


----------------------------------------------------------------------------
(* The contrast mapper's colors.  A color "#rrggbb" is the triple of its   *)
(* channels, 0..255.  Luminances, factors and ratios are fixed-point       *)
(* numbers with FP units to 1 (the code computes them in floating point);  *)
(* a power x^(k/5) is the k-th power of the fifth root of x, found by      *)
(* bisection.                                                              *)

FP == 10000

FMul(a, b) == (a * b) \div FP
FDiv(a, b) == (a * FP) \div b
FMin(a, b) == IF a <= b THEN a ELSE b
FMax(a, b) == IF a >= b THEN a ELSE b
FPow5(y) == FMul(FMul(FMul(FMul(y, y), y), y), y)

(* the fixed-point value of a rational *)
ToFixed(r) == (r[1] * FP) \div r[2]

RECURSIVE Root5Between(_, _, _)
Root5Between(v, lo, hi) ==
    IF hi - lo <= 1 THEN (IF FPow5(hi) <= v THEN hi ELSE lo)
    ELSE LET mid == (lo + hi) \div 2
         IN  IF FPow5(mid) <= v THEN Root5Between(v, mid, hi) ELSE Root5Between(v, lo, mid)

(* v^(1/5) for 0 <= v <= 1 *)
Root5(v) == Root5Between(v, 0, FP)

(* Math.pow(x, 2.4), Math.pow(x, 0.6) and Math.pow(x, 0.4) for 0 <= x <= 1 *)
Pow04(x) == FMul(Root5(x), Root5(x))
Pow06(x) == FMul(Pow04(x), Root5(x))
Pow24(x) == FMul(FMul(x, x), Pow04(x))

(* Math.round(Math.max(0, Math.min(255, channel * factor))) *)
ScaleChannel(channel, factor) ==
    FMax(0, FMin(255, (channel * factor + FP \div 2) \div FP))

baseBackgroundColor == <<251, 240, 217>>      \* "#FBF0D9"
baseTextColor == <<95, 75, 50>>               \* "#5F4B32"

(* the linear value of one channel: c <= 0.03928 ? c / 12.92 : ((c + 0.055) / 1.055)^2.4 *)
LinearChannel(channel) ==
    LET c == FDiv(channel, 255)
    IN  IF 100000 * channel <= 3928 * 255
        THEN (c * 100) \div 1292
        ELSE Pow24(FDiv(c + 550, 10550))

calculateRelativeLuminance(color) ==
    (2126 * LinearChannel(color[1]) + 7152 * LinearChannel(color[2])
       + 722 * LinearChannel(color[3])) \div 10000

calculateContrastRatio(color1, color2) ==
    LET l1 == calculateRelativeLuminance(color1)
        l2 == calculateRelativeLuminance(color2)
    IN  FDiv(FMax(l1, l2) + 500, FMin(l1, l2) + 500)

luminanceToColor(luminance, baseColor) ==
    LET targetLuminance == FMax(0, FMin(FP, luminance))
        currentLuminance == calculateRelativeLuminance(baseColor)
        factor == IF targetLuminance > currentLuminance
                  THEN FDiv(FP, Pow04(FDiv(currentLuminance, targetLuminance)))
                  ELSE Pow06(FDiv(targetLuminance, currentLuminance))
    IN  IF 1000 * Abs(targetLuminance - currentLuminance) < FP
        THEN baseColor
        ELSE <<ScaleChannel(baseColor[1], factor), ScaleChannel(baseColor[2], factor),
               ScaleChannel(baseColor[3], factor)>>

adjustColorForContrast(baseColor, targetColor, targetRatio, adjustBackground) ==
    LET baseLuminance == calculateRelativeLuminance(baseColor)
        targetLuminance == calculateRelativeLuminance(targetColor)
        newLuminance ==
            IF adjustBackground
            THEN IF baseLuminance > targetLuminance
                 THEN FMul(baseLuminance + 500, targetRatio) - 500
                 ELSE FDiv(baseLuminance + 500, targetRatio) - 500
            ELSE IF targetLuminance > baseLuminance
                 THEN FDiv(targetLuminance + 500, targetRatio) - 500
                 ELSE FMul(targetLuminance + 500, targetRatio) - 500
    IN  luminanceToColor(FMax(0, FMin(FP, newLuminance)), targetColor)

adjustBrightness(color, factor) ==
    <<ScaleChannel(color[1], factor), ScaleChannel(color[2], factor),
      ScaleChannel(color[3], factor)>>

(* getContrastColorsForRatio(targetRatio), targetRatio in fixed point *)
getContrastColorsForRatio(targetRatio) ==
    LET adjustedText == adjustColorForContrast(baseTextColor, baseBackgroundColor,
                                               targetRatio, FALSE)
        baseRatio == 6 * FP
        adjustedBackground ==
            IF targetRatio < baseRatio
            THEN adjustBrightness(baseBackgroundColor,
                                  FP + ((baseRatio - targetRatio) * 3) \div 100)
            ELSE IF targetRatio > baseRatio
            THEN adjustBrightness(baseBackgroundColor,
                                  FP - ((targetRatio - baseRatio) * 2) \div 100)
            ELSE baseBackgroundColor
    IN  [background |-> adjustedBackground, text |-> adjustedText,
         ratio |-> calculateContrastRatio(adjustedText, adjustedBackground)]

(* a call of calculateContrastAdjustment(distance) *)
ContrastAdjustment(distance) ==
    /\ returned' = calculateContrastAdjustment(distance)
    /\ op' = "calculateContrastAdjustment"
    /\ args' = <<distance>>
    /\ delivered' = <<>> /\ notified' = "none"
    /\ UNCHANGED <<now, mgrVars, detVars, dlgVars, sesVars, frameNo, frameStatus, frameRun>>

(* a call of getContrastColorsForRatio(targetRatio) *)
ContrastColors(targetRatio) ==
    /\ returned' = getContrastColorsForRatio(ToFixed(targetRatio))
    /\ op' = "getContrastColorsForRatio"
    /\ args' = <<targetRatio>>
    /\ delivered' = <<>> /\ notified' = "none"
    /\ UNCHANGED <<now, mgrVars, detVars, dlgVars, sesVars, frameNo, frameStatus, frameRun>>

----------------------------------------------------------------------------
(* The reading-mode session with its asynchronous starts.  startDynamicFont *)
(* and startDynamicContrast suspend at `await initialize()` and, inside     *)
(* startCamera, at `await getUserMedia()` and `await video.play()`; every   *)
(* suspended call is a task [fn, pc, detector].  initialize() contains no   *)
(* await, so the continuation after it is a microtask and runs before any   *)
(* event handler; the other two awaits last until the browser answers.      *)
(* The session's handlers are computed on the record S: the fields of M,    *)
(* the detectors constructed so far, the tasks, and whether the error       *)
(* callback was invoked.  video is "null", "element" (a video element       *)
(* without stream) or "stream" (a live capture stream).                     *)

FreshDetector == [isInitialized |-> FALSE, video |-> "null", isRunning |-> FALSE]

S == M @@ [detectors |-> detectors, tasks |-> tasks, error |-> FALSE]

(* this.distanceDetector.stopCamera(): stops the tracks of a stream that   *)
(* is attached to the video element, else does nothing                     *)
detectorStopCamera(s) ==
    IF s.detectors[s.distanceDetector].video = "stream"
    THEN [s EXCEPT !.detectors[s.distanceDetector].video = "null"]
    ELSE s

(* this.distanceDetector.startDetectionLoop() *)
detectorStartDetectionLoop(s) ==
    IF s.detectors[s.distanceDetector].isInitialized
       /\ s.detectors[s.distanceDetector].video # "null"
    THEN [s EXCEPT !.detectors[s.distanceDetector].isRunning = TRUE]
    ELSE s

(* this.distanceDetector = new MediaPipeDistanceDetector(...) followed by  *)
(* await this.distanceDetector.initialize(), which loads the model         *)
createDetector(s, fn) ==
    [s EXCEPT !.detectors = Append(@, [FreshDetector EXCEPT !.isInitialized = TRUE]),
              !.distanceDetector = Len(s.detectors) + 1,
              !.tasks = @ \cup {[fn |-> fn, pc |-> "initialize",
                                 detector |-> Len(s.detectors) + 1]}]

(* a start that shows the calibration-required message and leaves the      *)
(* dynamic-font flag and checkbox on                                       *)
beginDynamicFont_FlagKept(s) ==
    IF ~s.isDynamicFontEnabled \/ ~s.isReadingMode THEN s
    ELSE IF ~HasCalibrationData(storedCalibration) THEN s
    ELSE createDetector(s, "font")

(* startDynamicFont() up to its first await *)
beginDynamicFont(s) ==
    IF ~s.isDynamicFontEnabled \/ ~s.isReadingMode THEN s
    ELSE IF ~HasCalibrationData(storedCalibration) THEN showCalibrationRequiredDialog(s)
    ELSE createDetector(s, "font")

(* startDynamicContrast() up to its first await *)
beginDynamicContrast(s) ==
    IF ~s.isDynamicContrastEnabled \/ ~s.isReadingMode THEN s
    ELSE LET based == [s EXCEPT !.currentContrast = BaseColors]
         IN  IF based.distanceDetector # 0 THEN based
             ELSE IF ~HasCalibrationData(storedCalibration)
                  THEN showCalibrationRequiredDialog(based)
             ELSE createDetector(based, "contrast")

(* stopDynamicFont() on a session with several detectors *)
endDynamicFont(s) ==
    LET reset == [s EXCEPT !.currentFontSize = s.baseFontSize,
                           !.lastStableDistance = R(0),
                           !.currentDistance = R(0)]
    IN  IF ~s.isDynamicContrastEnabled /\ ~s.isDynamicFontEnabled /\ s.distanceDetector # 0
        THEN [detectorStopCamera(reset) EXCEPT !.distanceDetector = 0]
        ELSE reset

(* stopDynamicContrast() on a session with several detectors *)
endDynamicContrast(s) ==
    LET reset == [s EXCEPT !.currentContrast = BaseColors]
    IN  IF ~s.isDynamicFontEnabled /\ ~s.isDynamicContrastEnabled /\ s.distanceDetector # 0
        THEN [detectorStopCamera(reset) EXCEPT !.distanceDetector = 0]
        ELSE reset

(* enterReadingMode() up to the first await of the starts *)
beginReadingMode(s) ==
    beginDynamicContrast(beginDynamicFont(
        [s EXCEPT !.isReadingMode = TRUE, !.currentContrast = BaseColors]))

(* exitReadingMode() with the init() it schedules *)
endReadingMode(s) ==
    LET stopped == endDynamicContrast(endDynamicFont([s EXCEPT !.isReadingMode = FALSE]))
        forced == IF stopped.distanceDetector # 0
                  THEN [detectorStopCamera(stopped) EXCEPT !.distanceDetector = 0]
                  ELSE stopped
    IN  loadSettings(forced)

(* the change handlers of the two checkboxes *)
fontCheckboxChange(s, checked) ==
    LET saved == saveSettings([s EXCEPT !.isDynamicFontEnabled = checked])
    IN  IF ~saved.isReadingMode THEN saved
        ELSE IF checked THEN beginDynamicFont(saved) ELSE endDynamicFont(saved)

contrastCheckboxChange(s, checked) ==
    LET saved == saveSettings([s EXCEPT !.isDynamicContrastEnabled = checked])
    IN  IF ~saved.isReadingMode THEN saved
        ELSE IF checked THEN beginDynamicContrast(saved) ELSE endDynamicContrast(saved)

(* the catch blocks of the starts: onDynamicFontError / onDynamicError *)
startFailed(s, task) ==
    [s EXCEPT !.tasks = @ \ {task}, !.error = TRUE]

(* after await initialize(): this.distanceDetector.startCamera() creates   *)
(* the video element and awaits getUserMedia; on a null detector the call  *)
(* is a TypeError                                                          *)
afterInitialize(s, task) ==
    IF s.distanceDetector = 0 THEN startFailed(s, task)
    ELSE [s EXCEPT !.detectors[s.distanceDetector].video = "element",
                   !.tasks = (@ \ {task}) \cup {[fn |-> task.fn, pc |-> "getUserMedia",
                                                 detector |-> s.distanceDetector]}]

(* after await initialize() that returned false: new FaceMesh(...) or its  *)
(* setup threw, initialize() reported the error through config.onError     *)
(* and left isInitialized false; the start does not look at the result and *)
(* goes on to startCamera()                                                *)
initializeFailed(s, task) ==
    afterInitialize([s EXCEPT !.detectors[task.detector].isInitialized = FALSE,
                              !.error = TRUE], task)

(* getUserMedia resolves: the stream is attached to the detector's video   *)
(* element and startCamera awaits video.play()                             *)
streamGranted(s, task) ==
    [s EXCEPT !.detectors[task.detector].video = "stream",
              !.tasks = (@ \ {task}) \cup {[fn |-> task.fn, pc |-> "play",
                                            detector |-> task.detector]}]

(* getUserMedia rejects: startCamera reports the error and returns false,  *)
(* the start throws and reports again                                      *)
streamDenied(s, task) == startFailed(s, task)

(* the rest of the start after startCamera() returned true *)
afterStartCamera(s, task) ==
    IF s.distanceDetector = 0 THEN startFailed(s, task)
    ELSE LET loaded == [s EXCEPT !.tasks = @ \ {task},
                                 !.calibration = LoadedCalibration(storedCalibration)]
             based == IF task.fn = "font"
                      THEN [loaded EXCEPT
                                !.baseFontSize = ReferenceFontSizeOrDefault(storedCalibration),
                                !.currentFontSize = ReferenceFontSizeOrDefault(storedCalibration),
                                !.lastStableDistance = R(0),
                                !.currentDistance = R(0)]
                      ELSE loaded
         IN  detectorStartDetectionLoop(based)

(* video.play() settles: it is rejected if stopCamera took the stream off  *)
(* the element meanwhile, else startCamera returns true                    *)
videoPlayed(s, task) ==
    IF s.detectors[task.detector].video # "stream" THEN startFailed(s, task)
    ELSE afterStartCamera(s, task)

(* a step of the session: the fields become those of record s *)
SessionStep(name, s) ==
    /\ isReadingMode' = s.isReadingMode
    /\ isDynamicFontEnabled' = s.isDynamicFontEnabled
    /\ isDynamicContrastEnabled' = s.isDynamicContrastEnabled
    /\ baseFontSize' = s.baseFontSize
    /\ currentFontSize' = s.currentFontSize
    /\ lastStableDistance' = s.lastStableDistance
    /\ currentDistance' = s.currentDistance
    /\ currentContrast' = s.currentContrast
    /\ distanceDetector' = s.distanceDetector
    /\ calibration' = s.calibration
    /\ storedSettings' = s.storedSettings
    /\ detectors' = s.detectors
    /\ tasks' = s.tasks
    /\ managerError' = s.error
    /\ op' = name
    /\ args' = <<>>
    /\ delivered' = <<>> /\ notified' = "none" /\ returned' = "none"
    /\ UNCHANGED <<now, dlgVars, deadZoneCenter, lastDistanceChangeTime, faceHistory,
                   lastCalibrationStatus, statusStabilityCounter, statusStabilityThreshold,
                   lifeVars, storedCalibration, frameNo, frameStatus, frameRun>>

(* no continuation is waiting in the microtask queue *)
NoMicrotask == \A task \in tasks : task.pc # "initialize"

BeginReadingMode ==
    /\ NoMicrotask /\ ~isReadingMode
    /\ \E s \in {beginReadingMode(S)} : SessionStep("enterReadingMode", s)

EndReadingMode ==
    /\ NoMicrotask /\ isReadingMode
    /\ \E s \in {endReadingMode(S)} : SessionStep("exitReadingMode", s)

FontCheckbox ==
    /\ NoMicrotask
    /\ \E s \in {fontCheckboxChange(S, ~isDynamicFontEnabled)} :
           SessionStep("dynamicFontCheckbox", s)

ContrastCheckbox ==
    /\ NoMicrotask
    /\ \E s \in {contrastCheckboxChange(S, ~isDynamicContrastEnabled)} :
           SessionStep("dynamicContrastCheckbox", s)

AfterInitialize ==
    \E task \in tasks :
        /\ task.pc = "initialize"
        /\ \E s \in {afterInitialize(S, task)} : SessionStep("afterInitialize", s)

InitializeFailed ==
    \E task \in tasks :
        /\ task.pc = "initialize"
        /\ \E s \in {initializeFailed(S, task)} : SessionStep("initializeFailed", s)

StreamGranted ==
    /\ NoMicrotask
    /\ \E task \in tasks :
        /\ task.pc = "getUserMedia"
        /\ \E s \in {streamGranted(S, task)} : SessionStep("streamGranted", s)

StreamDenied ==
    /\ NoMicrotask
    /\ \E task \in tasks :
        /\ task.pc = "getUserMedia"
        /\ \E s \in {streamDenied(S, task)} : SessionStep("streamDenied", s)

VideoPlayed ==
    /\ NoMicrotask
    /\ \E task \in tasks :
        /\ task.pc = "play"
        /\ \E s \in {videoPlayed(S, task)} : SessionStep("videoPlayed", s)

(* a frame with a face reaches a detector of the session whose isRunning   *)
(* is set; every detector of a session has loaded the same stored record   *)
DetectorFaceFrame(d, smoothedWidth, dt) ==
    /\ NoMicrotask
    /\ detectors[d].isRunning
    /\ now' = now + dt
    /\ \E metrics \in {CenteredMetrics(smoothedWidth, now + dt)} :
       \E sample \in {FaceSample(metrics, ClassifyAlignment(metrics))} :
           /\ delivered' = <<sample>>
           /\ OnDistanceUpdate(sample, now + dt)
    /\ op' = "detectorFaceFrame"
    /\ args' = <<d, smoothedWidth>>
    /\ notified' = "none" /\ returned' = "none"
    /\ frameNo' = frameNo + 1
    /\ UNCHANGED <<dlgVars, sesVars, isReadingMode, isDynamicFontEnabled,
                   isDynamicContrastEnabled, baseFontSize, distanceDetector, storedSettings,
                   detVars, frameStatus, frameRun>>

----------------------------------------------------------------------------
(* Initial states: the objects right after construction.                   *)

StartTime == 100000

AbsentSettings == [present |-> FALSE, isDynamicFontEnabled |-> FALSE,
                   isDynamicContrastEnabled |-> FALSE]

(* ReadingModeManager constructor: fields, initializeFontSizes, loadSettings *)
InitManager ==
    /\ isReadingMode = FALSE
    /\ isDynamicFontEnabled = (storedSettings.present /\ storedSettings.isDynamicFontEnabled)
    /\ isDynamicContrastEnabled =
           (storedSettings.present /\ storedSettings.isDynamicContrastEnabled)
    /\ baseFontSize = ReferenceFontSizeOrDefault(storedCalibration)
    /\ currentFontSize = ReferenceFontSizeOrDefault(storedCalibration)
    /\ lastStableDistance = R(0)
    /\ currentDistance = R(0)
    /\ deadZoneCenter = R(0)
    /\ lastDistanceChangeTime = 0
    /\ currentContrast = BaseColors
    /\ distanceDetector = 0
    /\ detectors = <<>>
    /\ tasks = {}
    /\ managerError = FALSE

(* MediaPipeDistanceDetector constructor; the calibration dialog lowers    *)
(* statusStabilityThreshold of its detector to 1 before the first frame.   *)
StabilityThresholds == {3, 1}

InitDetector ==
    /\ faceHistory = <<>>
    /\ calibration = Uncalibrated
    /\ lastCalibrationStatus = "null"
    /\ statusStabilityCounter = 0
    /\ statusStabilityThreshold \in StabilityThresholds
    /\ isInitialized = FALSE
    /\ video = FALSE
    /\ isRunning = FALSE
    /\ faceMeshClosed = FALSE

(* CalibrationDialogManager constructor, init and checkExistingCalibration *)
InitDialog ==
    /\ calibrationData = ExistingCalibration(storedCalibration)
    /\ isCalibrating = FALSE
    /\ startCalibrationBtnDisabled = TRUE
    /\ countdowns = <<>>

InitObserved ==
    /\ op = "init"
    /\ args = <<>>
    /\ delivered = <<>>
    /\ notified = "none"
    /\ returned = "none"
    /\ frameNo = 0
    /\ frameStatus = "none"
    /\ frameRun = 0

----------------------------------------------------------------------------
(* SpecDet: one detector driven by frames and by calls of its methods.     *)

MaxDetFrames == 5
MaxCounter == 3

(* 640x480 frames: a face 160 px wide in the middle of the image, and a   *)
(* face 320 px wide in its right half.                                     *)
DetFrames ==
    { Landmarks(Rat(3, 8), Rat(5, 8), Rat(1, 4), Rat(3, 4)),
      Landmarks(Rat(1, 2), R(1), Rat(1, 4), Rat(3, 4)) }

FrameInterval == 250
NoFaceDelays == {250, 501}

CalibrateFontSizes == {R(20)}

LoadInputs == { CalibrationData(TRUE, TRUE, TRUE, TRUE, R(160), R(18), 0),
                StoredRecord(R(160), R(18), 1000) }

InitDet ==
    /\ now = StartTime
    /\ storedCalibration = AbsentData
    /\ InitDialog
    /\ storedSettings = AbsentSettings
    /\ InitManager
    /\ InitDetector
    /\ InitObserved

NextDet ==
    \/ Initialize
    \/ StartCamera
    \/ StartDetectionLoop
    \/ /\ frameNo < MaxDetFrames
       /\ \/ \E landmarks \in DetFrames : ProcessFace(landmarks, FrameInterval)
          \/ \E dt \in NoFaceDelays : ProcessNoFace(dt)
    \/ /\ statusStabilityCounter < MaxCounter
       /\ \E fontSize \in CalibrateFontSizes : Calibrate(fontSize)
    \/ \E data \in LoadInputs \cup {storedCalibration} : LoadCalibration(data)

SpecDet == InitDet /\ [][NextDet]_vars



----------------------------------------------------------------------------
(* SpecFont: one ReadingModeManager with its reading-mode session.  The    *)
(* session's detector is seen through the smoothed face width of each      *)
(* frame; its calibration is the one loaded from the store at start.       *)

MaxFontFrames == 3
ReferenceWidth == 160

(* relative distances of the frames, and the smoothed widths showing them  *)
FontDistances == { R(-50), R(-2), R(0), R(2), Rat(5, 2), R(50), R(150) }
WidthAt(d) == RDiv(RMul(R(distanceScale), R(ReferenceWidth)), RAdd(R(distanceScale), d))
FontWidths == { WidthAt(d) : d \in FontDistances }
FontDelays == {1000, 1001}

FontStores == { AbsentData,
                StoredRecord(R(ReferenceWidth), R(10), 1000),
                StoredRecord(R(ReferenceWidth), R(16), 1000),
                StoredRecord(R(ReferenceWidth), R(32), 1000),
                StoredRecord(R(ReferenceWidth), R(20), 0) }

InitFont ==
    /\ now = StartTime
    /\ storedCalibration \in FontStores
    /\ InitDialog
    /\ storedSettings = AbsentSettings
    /\ InitManager
    /\ InitDetector
    /\ statusStabilityThreshold = 3
    /\ InitObserved

NextFont ==
    \/ EnterReadingMode
    \/ ExitReadingMode
    \/ DynamicFontCheckbox
    \/ DynamicContrastCheckbox
    \/ /\ frameNo < MaxFontFrames
       /\ \/ \E smoothedWidth \in FontWidths : \E dt \in FontDelays :
                 SessionFaceFrame(smoothedWidth, dt)
          \/ \E dt \in FontDelays : SessionNoFaceFrame(dt)

SpecFont == InitFont /\ [][NextFont]_vars


----------------------------------------------------------------------------
(* SpecSession: one ReadingModeManager whose starts are interleaved with   *)
(* the user's actions, the browser's answers and the frames.               *)

MaxDetectors == 2
MaxSessionFrames == 1

SessionStores == { AbsentData,
                   UnparseableData,
                   NonObjectData,
                   CalibrationData(TRUE, TRUE, TRUE, FALSE, Null, R(20), 1000),
                   CalibrationData(TRUE, TRUE, TRUE, TRUE, R(ReferenceWidth), R(20), 0),
                   StoredRecord(R(ReferenceWidth), R(20), 1000) }

SessionSettings == { AbsentSettings,
                     [present |-> TRUE, isDynamicFontEnabled |-> TRUE,
                      isDynamicContrastEnabled |-> FALSE],
                     [present |-> TRUE, isDynamicFontEnabled |-> TRUE,
                      isDynamicContrastEnabled |-> TRUE] }

SessionWidths == { WidthAt(R(50)) }

InitSession ==
    /\ now = StartTime
    /\ storedCalibration \in SessionStores
    /\ InitDialog
    /\ storedSettings \in SessionSettings
    /\ InitManager
    /\ InitDetector
    /\ statusStabilityThreshold = 3
    /\ InitObserved

NextSession ==
    \/ BeginReadingMode /\ Len(detectors') <= MaxDetectors
    \/ EndReadingMode
    \/ FontCheckbox /\ Len(detectors') <= MaxDetectors
    \/ ContrastCheckbox /\ Len(detectors') <= MaxDetectors
    \/ AfterInitialize
    \/ StreamGranted
    \/ StreamDenied
    \/ VideoPlayed
    \/ /\ frameNo < MaxSessionFrames
       /\ \E d \in 1..Len(detectors) : \E smoothedWidth \in SessionWidths :
              DetectorFaceFrame(d, smoothedWidth, FrameInterval)

SpecSession == InitSession /\ [][NextSession]_vars

----------------------------------------------------------------------------
(* SpecStartup: the reading-mode session of SpecSession where the landmark *)
(* model may also fail to load.                                            *)

NextStartup ==
    \/ NextSession
    \/ InitializeFailed

SpecStartup == InitSession /\ [][NextStartup]_vars

----------------------------------------------------------------------------

(* SpecContrast: the contrast mapper.  The target ratio is computed for    *)
(* the distances from -MaxContrastDistance to MaxContrastDistance in steps *)
(* of one half, the colors for the target ratios of five distances.        *)

MaxContrastDistance == 30

ContrastDistances == { Rat(k, 2) : k \in (-2 * MaxContrastDistance)..(2 * MaxContrastDistance) }

(* the target ratios 3.5, 4.5, 6, 7.2 and 9 *)
ContrastRatios == { calculateContrastAdjustment(d) : d \in {R(-25), R(-15), R(0), R(10), R(30)} }

NextContrast ==
    \/ \E distance \in ContrastDistances : ContrastAdjustment(distance)
    \/ \E targetRatio \in ContrastRatios : ContrastColors(targetRatio)

InitContrast == InitFont /\ storedCalibration = AbsentData

SpecContrast == InitContrast /\ [][NextContrast]_vars

----------------------------------------------------------------------------
(* SpecMetrics: calculateFaceMetrics on landmark sets whose coordinates    *)
(* are the multiples of 1/MetricsGrid in [0, 1], the ears and the forehead *)
(* and chin in either order, for two image sizes.                          *)

MetricsGrid == 2

MetricsCoordinates == { Rat(k, MetricsGrid) : k \in 0..MetricsGrid }

MetricsLandmarks ==
    { Landmarks(leftEarX, rightEarX, foreheadY, chinY) :
          leftEarX \in MetricsCoordinates, rightEarX \in MetricsCoordinates,
          foreheadY \in MetricsCoordinates, chinY \in MetricsCoordinates }

MetricsSizes == { <<imageWidth, imageHeight>>, <<1, 1>> }

NextMetrics ==
    \E landmarks \in MetricsLandmarks : \E size \in MetricsSizes :
        FaceMetrics(landmarks, size[1], size[2])

SpecMetrics == InitDet /\ [][NextMetrics]_vars

----------------------------------------------------------------------------
(* SpecAlign: the classifier on frames of every kind of alignment.         *)

MaxAlignFrames == 1

AlignRatios == { Rat(2, 10), Rat(1, 4), Rat(1, 2), Rat(3, 4), Rat(8, 10) }
AlignCenters == { Rat(-21, 100), Rat(-2, 10), R(0), Rat(2, 10), Rat(21, 100) }

(* landmarks of a face of the given width ratio around the given center    *)
LandmarksAt(ratio, centerX, centerY) ==
    Landmarks(RDiv(RSub(RAdd(R(1), centerX), ratio), R(2)),
              RDiv(RAdd(RAdd(R(1), centerX), ratio), R(2)),
              RDiv(RSub(RAdd(R(1), centerY), Rat(1, 2)), R(2)),
              RDiv(RAdd(RAdd(R(1), centerY), Rat(1, 2)), R(2)))

(* normalized coordinates lie in [0, 1] *)
InImage(landmarks) ==
    /\ RLe(R(0), landmarks.leftEarX) /\ RLe(landmarks.rightEarX, R(1))
    /\ RLe(R(0), landmarks.foreheadY) /\ RLe(landmarks.chinY, R(1))

AlignFrames ==
    { landmarks \in { LandmarksAt(ratio, centerX, centerY) :
                          ratio \in AlignRatios, centerX \in AlignCenters,
                          centerY \in AlignCenters } : InImage(landmarks) }

NextAlign ==
    \/ Initialize
    \/ StartCamera
    \/ StartDetectionLoop
    \/ /\ frameNo < MaxAlignFrames
       /\ \E landmarks \in AlignFrames : ProcessFace(landmarks, FrameInterval)

SpecAlign == InitDet /\ [][NextAlign]_vars

----------------------------------------------------------------------------
(* SpecCal: the calibration dialog with its detector, the persistent store *)
(* and the detectors that later load what the store holds.                 *)

MaxCalFrames == 2

CalFrames == { Landmarks(Rat(3, 8), Rat(5, 8), Rat(1, 4), Rat(3, 4)),     \* 160 px wide, good
               Landmarks(Rat(1, 4), Rat(3, 4), Rat(1, 4), Rat(3, 4)),     \* 320 px wide, good
               Landmarks(Rat(1, 2), R(1), Rat(1, 4), Rat(3, 4)) }         \* 320 px wide, too-right

(* values of the dialog's font slider (min 10, max 32) *)
CalFontSizes == { R(10), R(32) }

(* arguments of loadCalibration: what a store may hold *)
CalInputs == { AbsentData, UnparseableData, NonObjectData,
               CalibrationData(TRUE, TRUE, TRUE, FALSE, Null, R(18), 1000),
               CalibrationData(TRUE, TRUE, TRUE, TRUE, R(160), R(18), 0),
               CalibrationData(TRUE, TRUE, TRUE, TRUE, R(0), R(18), 1000),
               CalibrationData(TRUE, TRUE, TRUE, TRUE, R(200), Null, 1000) }

InitCal ==
    /\ now = StartTime
    /\ storedCalibration = AbsentData
    /\ InitDialog
    /\ storedSettings = AbsentSettings
    /\ InitManager
    /\ InitDetector
    /\ statusStabilityThreshold = 1
    /\ InitObserved

NextCal ==
    \/ Initialize
    \/ StartCamera
    \/ StartDetectionLoop
    \/ /\ frameNo < MaxCalFrames
       /\ \/ \E landmarks \in CalFrames : ProcessFace(landmarks, FrameInterval)
          \/ ProcessNoFace(NoFaceGrace + 1)
    \/ /\ statusStabilityCounter < MaxCounter
       /\ \E fontSize \in CalFontSizes : CompleteCalibration(fontSize)
    \/ SaveCalibration
    \/ ResetCalibration
    \/ NewDetector(3)
    \/ \E data \in CalInputs \cup {storedCalibration} : LoadCalibration(data)

SpecCal == InitCal /\ [][NextCal]_vars

----------------------------------------------------------------------------
(* SpecDialog: the calibration dialog with its start button, its           *)
(* countdowns and the frames of its detector.                              *)

MaxDialogFrames == 3
MaxCountdowns == 2
MaxDialogTime == 6000

NextDialog ==
    \/ Initialize
    \/ StartCamera
    \/ StartDetectionLoop
    \/ /\ frameNo < MaxDialogFrames
       /\ \/ \E landmarks \in CalFrames : DialogFaceFrame(landmarks, FrameInterval)
          \/ DialogNoFaceFrame(NoFaceGrace + 1)
    \/ /\ Len(countdowns) < MaxCountdowns
       /\ now < StartTime + MaxDialogTime
       /\ StartCalibration
    \/ CountdownWait
    \/ \E fontSize \in CalFontSizes : CountdownTick(fontSize)

SpecDialog == InitCal /\ [][NextDialog]_vars

----------------------------------------------------------------------------

(* SpecSmooth: the smoothing buffer of one detector over more frames than  *)
(* the buffer holds, with face losses, calibrate calls and cleanup.        *)

MaxSmoothFrames == 6

SmoothFrames == { Landmarks(Rat(3, 8), Rat(5, 8), Rat(1, 4), Rat(3, 4)),  \* 160 px wide, good
                  Landmarks(Rat(1, 2), R(1), Rat(1, 8), Rat(5, 8)) }      \* 320 px wide, too-right

NextSmooth ==
    \/ Initialize
    \/ StartCamera
    \/ StartDetectionLoop
    \/ Cleanup
    \/ /\ frameNo < MaxSmoothFrames
       /\ \/ \E landmarks \in SmoothFrames : ProcessFace(landmarks, FrameInterval)
          \/ ProcessNoFace(NoFaceGrace + 1)
          \/ IgnoredFrame(FrameInterval)
    \/ /\ statusStabilityCounter < MaxCounter
       /\ \E fontSize \in CalibrateFontSizes : Calibrate(fontSize)

SpecSmooth == InitDet /\ [][NextSmooth]_vars

----------------------------------------------------------------------------
(* SpecTeardown: one detector whose owner stops the camera (stopCamera, as *)
(* the reading-mode session does) or cleans it up (cleanup, as the         *)
(* calibration dialog does) while frame results are still arriving.        *)

MaxTeardownFrames == 4

NextTeardown ==
    \/ Initialize
    \/ ~isRunning /\ StartCamera
    \/ StartDetectionLoop
    \/ StopCamera
    \/ Cleanup
    \/ /\ frameNo < MaxTeardownFrames
       /\ \/ \E landmarks \in SmoothFrames : ProcessFace(landmarks, FrameInterval)
          \/ \E dt \in NoFaceDelays : ProcessNoFace(dt)
          \/ IgnoredFrame(FrameInterval)

SpecTeardown == InitDet /\ [][NextTeardown]_vars

----------------------------------------------------------------------------
(* Properties of the font mapper, checked under SpecFont.  A sample is     *)
(* handled by handleStableFontAdjustment when it reaches the manager in    *)
(* reading mode with dynamic font enabled and carries a numeric distance.  *)

(* C1: a handled distance sample d commits the font (currentFontSize :=    *)
(* candidate, lastStableDistance := d) exactly when d is outside the dead  *)
(* zone around the center as it was before the sample, differs from        *)
(* lastStableDistance by at least fontChangeThreshold, and the candidate   *)
(* clamp(base * clamp(1 + d*1.5*0.8/100, 0.6, 2.5), 12, 32) differs from   *)
(* currentFontSize by at least 0.2; otherwise both fields are unchanged.   *)
C1_CommitIffAllFiltersPass ==
    [][ (op' = "sessionFaceFrame" /\ isReadingMode /\ isDynamicFontEnabled) =>
        LET d == delivered'[1].offset
            linear == RAdd(R(1), RDiv(RMul(RMul(d, Rat(15, 10)), Rat(8, 10)), R(100)))
            multiplier == RMax(Rat(6, 10), RMin(Rat(25, 10), linear))
            candidate == RMax(R(12), RMin(R(32), RMul(baseFontSize, multiplier)))
            pass == /\ RLt(deadZoneRadius, RAbs(RSub(d, deadZoneCenter)))
                    /\ RLe(fontChangeThreshold, RAbs(RSub(d, lastStableDistance)))
                    /\ RLe(Rat(2, 10), RAbs(RSub(candidate, currentFontSize)))
        IN  IF pass
            THEN currentFontSize' = candidate /\ lastStableDistance' = d
            ELSE UNCHANGED <<currentFontSize, lastStableDistance>> ]_vars

(* a sample at distance 50 has just been committed on base 16: 25.6 px *)
C1_Witness ==
    /\ op = "sessionFaceFrame" /\ isReadingMode /\ isDynamicFontEnabled
    /\ baseFontSize = R(16)
    /\ delivered[1].offset = R(50)
    /\ lastStableDistance = R(50)
    /\ currentFontSize = Rat(128, 5)
    /\ lastDistanceChangeTime = now

(* C2: a handled sample within deadZoneRadius of deadZoneCenter, the       *)
(* boundary included, leaves currentFontSize, lastStableDistance,          *)
(* deadZoneCenter and lastDistanceChangeTime unchanged.                    *)
C2_DeadZoneAbsorbs ==
    [][ (/\ op' = "sessionFaceFrame" /\ isReadingMode /\ isDynamicFontEnabled
         /\ RLe(RAbs(RSub(delivered'[1].offset, deadZoneCenter)), deadZoneRadius)) =>
        UNCHANGED <<currentFontSize, lastStableDistance, deadZoneCenter,
                    lastDistanceChangeTime>> ]_vars

(* a sample exactly deadZoneRadius from a center set by an earlier sample  *)
(* has been absorbed while its distance differs from the committed one     *)
C2_Witness ==
    /\ op = "sessionFaceFrame" /\ isReadingMode /\ isDynamicFontEnabled
    /\ RAbs(RSub(delivered[1].offset, deadZoneCenter)) = deadZoneRadius
    /\ lastDistanceChangeTime > 0
    /\ lastDistanceChangeTime < now
    /\ lastStableDistance # delivered[1].offset

(* C3: a handled sample d outside the dead zone, processed at time now,    *)
(* sets deadZoneCenter to d if now - lastDistanceChangeTime exceeds        *)
(* deadZoneStableTime and leaves it unchanged otherwise; it sets           *)
(* lastDistanceChangeTime to now in both cases, commit or not.             *)
C3_RecenterAfterStableTime ==
    [][ (/\ op' = "sessionFaceFrame" /\ isReadingMode /\ isDynamicFontEnabled
         /\ RLt(deadZoneRadius, RAbs(RSub(delivered'[1].offset, deadZoneCenter)))) =>
        /\ deadZoneCenter' = IF now' - lastDistanceChangeTime > 1000
                             THEN delivered'[1].offset ELSE deadZoneCenter
        /\ lastDistanceChangeTime' = now' ]_vars

(* a sample outside the dead zone arrived within the stable time: the time *)
(* is updated, the center kept, and no commit followed                     *)
C3_Witness ==
    /\ op = "sessionFaceFrame" /\ isReadingMode /\ isDynamicFontEnabled
    /\ lastDistanceChangeTime = now
    /\ RLt(deadZoneRadius, RAbs(RSub(delivered[1].offset, deadZoneCenter)))
    /\ lastStableDistance # delivered[1].offset

(* C4: every font size committed by the font mapper lies in [12, 32].      *)
C4_CommittedFontInRange ==
    [][ (op' = "sessionFaceFrame" /\ currentFontSize' # currentFontSize) =>
        (RLe(R(12), currentFontSize') /\ RLe(currentFontSize', R(32))) ]_vars

(* base 16 at distance 150 asks for 40 px and has been committed as 32 px  *)
C4_Witness ==
    /\ op = "sessionFaceFrame" /\ isReadingMode /\ isDynamicFontEnabled
    /\ baseFontSize = R(16)
    /\ delivered[1].offset = R(150)
    /\ lastStableDistance = R(150)
    /\ currentFontSize = R(32)

----------------------------------------------------------------------------
(* Properties of the detector, checked under SpecDet.                      *)

(* C5: for a calibrated detector with reference width r, the sample of a   *)
(* face frame with smoothed width w has isCalibrated true, distanceRatio   *)
(* w/r and distance (1/(w/r) - 1) * distanceScale: 0 at w = r, -50 at      *)
(* w = 2r, negative for w > r and positive for w < r.                      *)
C5_RelativeDistance ==
    (op = "faceFrame" /\ calibration.isCalibrated) =>
        LET sample == delivered[1]
            w == getSmoothedFaceMetrics(faceHistory).faceWidth
            r == calibration.referenceFaceWidth
        IN  /\ sample.isCalibrated
            /\ sample.faceWidth = w
            /\ RMul(sample.distanceRatio, r) = w
            /\ RMul(RAdd(sample.distance, R(100)), w) = RMul(R(100), r)
            /\ (w = r => sample.distance = R(0))
            /\ (w = RMul(R(2), r) => sample.distance = R(-50))
            /\ (RLt(r, w) => RLt(sample.distance, R(0)))
            /\ (RLt(w, r) => RLt(R(0), sample.distance))

(* a calibrated detector has seen a face twice as wide as its reference    *)
C5_Witness ==
    /\ op = "faceFrame" /\ calibration.isCalibrated
    /\ getSmoothedFaceMetrics(faceHistory).faceWidth =
           RMul(R(2), calibration.referenceFaceWidth)
    /\ delivered[1].distance = R(-50)

(* C6: while the detector is uncalibrated, or for absent metrics, every    *)
(* sample it computes has isCalibrated false, distance 0 and ratio 1,      *)
(* whatever the face width; a failed loadCalibration or calibrate leaves   *)
(* an uncalibrated detector uncalibrated.                                  *)
C6_UncalibratedIsNeutral ==
    /\ [](LET none == calculateRelativeDistance(NoMetrics)
          IN  ~none.isCalibrated /\ none.distance = R(0) /\ none.distanceRatio = R(1))
    /\ []((op = "faceFrame" /\ ~calibration.isCalibrated) =>
            /\ ~delivered[1].isCalibrated
            /\ delivered[1].distance = R(0)
            /\ delivered[1].distanceRatio = R(1)
            /\ delivered[1].faceWidth = getSmoothedFaceMetrics(faceHistory).faceWidth)
    /\ [][ (/\ ~calibration.isCalibrated
            /\ op' \in {"loadCalibration", "calibrate"}
            /\ returned' \in {"false", "throw"}) => ~calibration'.isCalibrated ]_vars

(* an uncalibrated detector has delivered the neutral sample for a face    *)
(* 320 px wide, after a call of calibrate failed on a misaligned face      *)
C6_Witness ==
    /\ op = "faceFrame" /\ ~calibration.isCalibrated
    /\ delivered[1].faceWidth = R(320)
    /\ delivered[1].distance = R(0)
    /\ statusStabilityCounter >= 2
    /\ frameRun = 2

(* C7: every notification carries a status that has been the status of at  *)
(* least statusStabilityThreshold consecutive frames ending with the frame *)
(* that triggers it, no-face included.                                     *)
C7_NotificationsDebounced ==
    notified # "none" =>
        /\ op \in {"faceFrame", "noFaceFrame"}
        /\ notified = frameStatus
        /\ frameRun >= statusStabilityThreshold

(* C8: in a run of face frames of one status that follows a frame of       *)
(* another status, no notification is delivered before the frame at which  *)
(* the status has been seen statusStabilityThreshold times in a row, and   *)
(* one is delivered on that frame.                                         *)
C8_FirstNotificationAtThreshold ==
    (op = "faceFrame" /\ frameNo > frameRun) =>
        /\ (frameRun < statusStabilityThreshold => notified = "none")
        /\ (frameRun = statusStabilityThreshold => notified = frameStatus)

(* C9: a frame whose status differs from the previous frame's status sets  *)
(* the stability counter to zero, a frame of the same status increments it *)
(* by one, transitions to and from no-face included.                       *)
C9_CounterFollowsFrames ==
    [][ (op' \in {"faceFrame", "noFaceFrame"} /\ frameNo' = frameNo + 1) =>
        /\ frameStatus' \in {"no-face", "too-far", "too-close", "too-left",
                             "too-right", "too-high", "too-low", "good"}
        /\ statusStabilityCounter' = IF frameStatus' # frameStatus
                                     THEN 0 ELSE statusStabilityCounter + 1 ]_vars

----------------------------------------------------------------------------
(* Property of the classifier, checked under SpecAlign.                    *)

(* C10: the status returned for a frame is the first that matches in the   *)
(* order no-face (no metrics), too-far (ratio < target/2), too-close       *)
(* (ratio > 3*target/2), too-left, too-right, too-high, too-low, good,     *)
(* with strict comparisons: ratio = target at center (0,0) is good, ratio  *)
(* = 0.4*target is too-far even off-center, centerX = tolerance + 0.01     *)
(* with nominal ratio is too-right.                                        *)
C10_FirstMatchingStatus ==
    /\ ClassifyAlignment(NoMetrics) = "no-face"
    /\ op = "faceFrame" =>
        LET metrics == getSmoothedFaceMetrics(faceHistory)
            ratio == metrics.faceWidthToImageRatio
            x == metrics.faceCenterX
            y == metrics.faceCenterY
            far == RLt(RMul(R(2), ratio), Rat(1, 2))
            close == RLt(Rat(3, 4), ratio)
            left == RLt(RAdd(x, Rat(2, 10)), R(0))
            right == RLt(Rat(2, 10), x)
            high == RLt(RAdd(y, Rat(2, 10)), R(0))
            low == RLt(Rat(2, 10), y)
        IN  /\ (returned = "too-far") = far
            /\ (returned = "too-close") = (~far /\ close)
            /\ (returned = "too-left") = (~far /\ ~close /\ left)
            /\ (returned = "too-right") = (~far /\ ~close /\ ~left /\ right)
            /\ (returned = "too-high") = (~far /\ ~close /\ ~left /\ ~right /\ high)
            /\ (returned = "too-low") =
                   (~far /\ ~close /\ ~left /\ ~right /\ ~high /\ low)
            /\ (returned = "good") =
                   (~far /\ ~close /\ ~left /\ ~right /\ ~high /\ ~low)
            /\ (ratio = Rat(1, 2) /\ x = R(0) /\ y = R(0) => returned = "good")
            /\ (ratio = Rat(2, 10) => returned = "too-far")
            /\ (ratio = Rat(1, 2) /\ x = Rat(21, 100) => returned = "too-right")
            /\ delivered[1].alignmentStatus = returned

(* a face at 0.4 of the target ratio, right of and below the tolerance,    *)
(* has been classified too-far                                             *)
C10_Witness ==
    /\ op = "faceFrame"
    /\ returned = "too-far"
    /\ getSmoothedFaceMetrics(faceHistory).faceWidthToImageRatio = Rat(2, 10)
    /\ getSmoothedFaceMetrics(faceHistory).faceCenterX = Rat(21, 100)
    /\ getSmoothedFaceMetrics(faceHistory).faceCenterY = Rat(21, 100)


----------------------------------------------------------------------------
(* Properties of calibration and of the persistent store, checked under    *)
(* SpecCal.                                                                *)

(* C11: calibrate writes the calibration, in memory and in the store, only *)
(* when the smoothed metrics exist and their alignment is good (ratio      *)
(* within [target/2, 3*target/2], center within the tolerance on both      *)
(* axes); otherwise it throws and leaves both exactly as they were.        *)
C11_CalibrateOnlyWhenGood ==
    [][ op' = "calibrate" =>
        LET metrics == getSmoothedFaceMetrics(faceHistory)
            good == /\ faceHistory # <<>>
                    /\ RLe(Rat(1, 4), metrics.faceWidthToImageRatio)
                    /\ RLe(metrics.faceWidthToImageRatio, Rat(3, 4))
                    /\ RLe(RAbs(metrics.faceCenterX), Rat(2, 10))
                    /\ RLe(RAbs(metrics.faceCenterY), Rat(2, 10))
        IN  IF good
            THEN /\ returned' = "calibration"
                 /\ calibration'.isCalibrated
                 /\ storedCalibration'.present
            ELSE /\ returned' = "throw"
                 /\ calibration' = calibration
                 /\ storedCalibration' = storedCalibration
                 /\ calibrationData' = calibrationData ]_vars

(* calibrate has thrown on a misaligned face while a calibration was held  *)
(* and stored                                                              *)
C11_Witness ==
    /\ op = "calibrate" /\ returned = "throw"
    /\ faceHistory # <<>>
    /\ ClassifyAlignment(getSmoothedFaceMetrics(faceHistory)) = "too-right"
    /\ calibration.isCalibrated
    /\ storedCalibration.present

(* C12: a successful calibrate(fontSize) sets isCalibrated with            *)
(* referenceFaceWidth the mean face width of the buffer at the call and    *)
(* referenceFontSize the supplied fontSize, returns the record, and leaves *)
(* the store holding a record with the same width, font size and timestamp.*)
C12_CalibrateRecord ==
    [][ (op' = "calibrate" /\ returned' = "calibration") =>
        LET n == Len(faceHistory)
            sum[i \in 0..n] == IF i = 0 THEN R(0)
                               ELSE RAdd(sum[i - 1], faceHistory[i].faceWidth)
        IN  /\ n > 0
            /\ calibration'.isCalibrated
            /\ RMul(calibration'.referenceFaceWidth, R(n)) = sum[n]
            /\ calibration'.referenceFontSize = args'[1]
            /\ calibration'.timestamp = now
            /\ storedCalibration'.present /\ storedCalibration'.parses
            /\ storedCalibration'.isObject /\ storedCalibration'.hasWidth
            /\ storedCalibration'.referenceFaceWidth = calibration'.referenceFaceWidth
            /\ storedCalibration'.referenceFontSize = calibration'.referenceFontSize
            /\ storedCalibration'.timestamp = calibration'.timestamp ]_vars

(* calibrate(32) has succeeded on a buffer of a 160 px and a 320 px face   *)
C12_Witness ==
    /\ op = "calibrate" /\ returned = "calibration"
    /\ Len(faceHistory) = 2
    /\ calibration.referenceFaceWidth = R(240)
    /\ calibration.referenceFontSize = R(32)
    /\ storedCalibration.referenceFaceWidth = R(240)

(* C13: a calibrated detector has a referenceFaceWidth greater than zero,  *)
(* whether calibrated by calibrate or by loadCalibration of any data.      *)
C13_ReferenceWidthPositive ==
    calibration.isCalibrated => RLt(R(0), calibration.referenceFaceWidth)

(* C14: loadCalibration accepts exactly the inputs that are (or parse to)  *)
(* an object with a referenceFaceWidth and a truthy timestamp; for every   *)
(* other input it returns false without throwing and leaves the            *)
(* calibration as it was.                                                  *)
C14_LoadValidates ==
    [][ op' = "loadCalibration" =>
        LET data == args'[1]
            wellFormed == /\ data.present /\ data.parses /\ data.isObject
                          /\ data.hasWidth /\ data.timestamp # 0
        IN  /\ returned' \in {"true", "false"}
            /\ (returned' = "true") = wellFormed
            /\ wellFormed =>
                   /\ calibration'.isCalibrated
                   /\ calibration'.referenceFaceWidth = data.referenceFaceWidth
                   /\ calibration'.timestamp = data.timestamp
            /\ ~wellFormed => calibration' = calibration ]_vars

(* a calibrated detector has rejected an unparseable string                *)
C14_Witness ==
    /\ op = "loadCalibration" /\ returned = "false"
    /\ args[1] = UnparseableData
    /\ calibration.isCalibrated
    /\ calibration.referenceFaceWidth = R(240)

(* C15: loading what the store holds, after the dialog persisted a record  *)
(* by calibrate or saveCalibration, yields a calibration with the          *)
(* referenceFaceWidth, referenceFontSize and timestamp of that record.     *)
C15_PersistReloadRoundTrip ==
    [][ (/\ op' = "loadCalibration"
         /\ calibrationData # AbsentData
         /\ args'[1] = storedCalibration) =>
        /\ returned' = "true"
        /\ calibration'.isCalibrated
        /\ calibration'.referenceFaceWidth = calibrationData.referenceFaceWidth
        /\ calibration'.referenceFontSize = calibrationData.referenceFontSize
        /\ calibration'.timestamp = calibrationData.timestamp ]_vars

(* a fresh detector has loaded the record of a calibration at 240 px and   *)
(* font size 10 that the dialog had saved                                  *)
C15_Witness ==
    /\ op = "loadCalibration" /\ returned = "true"
    /\ args[1] = storedCalibration
    /\ calibrationData # AbsentData
    /\ lastCalibrationStatus = "null"
    /\ faceHistory = <<>>
    /\ calibration.referenceFaceWidth = R(240)
    /\ calibration.referenceFontSize = R(10)
    /\ calibration.timestamp > StartTime


----------------------------------------------------------------------------
(* Properties of the smoothing buffer, checked under SpecSmooth.           *)

(* C16: after any sequence of face frames, no-face frames, calibrate calls *)
(* and cleanup, faceHistory never holds more than smoothingWindow samples. *)
C16_BufferBounded == Len(faceHistory) <= smoothingWindow

(* six face frames in a row have been processed: the buffer is full and    *)
(* the sample of the first frame has been evicted                          *)
C16_Witness ==
    /\ op = "faceFrame"
    /\ frameNo = 6
    /\ Len(faceHistory) = smoothingWindow
    /\ faceHistory[1].timestamp = StartTime + 2 * FrameInterval

(* C19: a face frame appends its sample and evicts the oldest ones while   *)
(* the buffer is longer than smoothingWindow, keeping the arrival order;   *)
(* the smoothed metrics are, in the six averaged fields, the arithmetic    *)
(* mean over exactly the samples then buffered; an empty buffer yields no  *)
(* metrics.                                                                *)
C19_FifoMean ==
    [][ op' = "faceFrame" =>
        LET k == Len(faceHistory)
            n == Len(faceHistory')
            fields == {"faceWidth", "faceHeight", "faceWidthToImageRatio",
                       "faceHeightToImageRatio", "faceCenterX", "faceCenterY"}
            sum[i \in 0..n] ==
                IF i = 0 THEN [f \in fields |-> R(0)]
                ELSE [f \in fields |-> RAdd(sum[i - 1][f], faceHistory'[i][f])]
            smoothed == getSmoothedFaceMetrics(faceHistory')
        IN  /\ n = IF k + 1 > smoothingWindow THEN smoothingWindow ELSE k + 1
            /\ faceHistory'[n] = calculateFaceMetrics(args'[1], imageWidth, imageHeight, now')
            /\ \A i \in 1..(n - 1) : faceHistory'[i] = faceHistory[i + (k + 1 - n)]
            /\ \A f \in fields : RMul(smoothed[f], R(n)) = sum[n][f]
            /\ RMul(delivered'[1].faceWidth, R(n)) = sum[n]["faceWidth"]
            /\ getSmoothedFaceMetrics(<<>>) = NoMetrics ]_vars

(* the sixth face frame in a row: the buffer holds frames two to six, of   *)
(* both widths, and the smoothed width differs from the newest sample's    *)
C19_Witness ==
    /\ op = "faceFrame"
    /\ frameNo = 6
    /\ Len(faceHistory) = smoothingWindow
    /\ faceHistory[1].timestamp = StartTime + 2 * FrameInterval
    /\ faceHistory[1].faceWidth # faceHistory[smoothingWindow].faceWidth
    /\ delivered[1].faceWidth # faceHistory[smoothingWindow].faceWidth


----------------------------------------------------------------------------
(* Properties of frames without a face: C17 and C18 under SpecDet, C20     *)
(* under SpecFont.                                                         *)

(* C17: a no-face frame processed more than 500 ms after the timestamp of  *)
(* the newest buffered sample, or with an empty buffer, leaves the buffer  *)
(* empty and delivers a sample with distance null, faceDetected false and  *)
(* alignmentStatus no-face.                                                *)
C17_FaceLossResets ==
    [][ (/\ op' = "noFaceFrame"
         /\ \/ faceHistory = <<>>
            \/ now' - faceHistory[Len(faceHistory)].timestamp > 500) =>
        /\ faceHistory' = <<>>
        /\ Len(delivered') = 1
        /\ delivered'[1].distance = Null
        /\ delivered'[1].faceDetected = FALSE
        /\ delivered'[1].alignmentStatus = "no-face" ]_vars

(* a buffer holding samples has been emptied by a no-face frame that came  *)
(* 501 ms after the newest sample                                          *)
C17_Witness ==
    /\ op = "noFaceFrame"
    /\ faceHistory = <<>>
    /\ delivered # <<>>
    /\ lastCalibrationStatus = "good"
    /\ frameRun = 1
    /\ frameNo = 3

(* C18: a no-face frame processed at most 500 ms after the timestamp of    *)
(* the newest buffered sample changes neither the buffer nor the debounce  *)
(* state nor the calibration and invokes no callback.                      *)
C18_GraceAbsorbs ==
    [][ (/\ op' = "noFaceFrame"
         /\ faceHistory # <<>>
         /\ now' - faceHistory[Len(faceHistory)].timestamp <= 500) =>
        /\ UNCHANGED <<faceHistory, lastCalibrationStatus, statusStabilityCounter,
                       calibration, storedCalibration>>
        /\ delivered' = <<>>
        /\ notified' = "none"
        /\ managerError' = FALSE ]_vars

(* the second no-face frame after a face frame, exactly 500 ms after it,   *)
(* has been absorbed by a calibrated detector                              *)
C18_Witness ==
    /\ op = "noFaceFrame"
    /\ frameRun = 2
    /\ faceHistory # <<>>
    /\ now - faceHistory[Len(faceHistory)].timestamp = 500
    /\ delivered = <<>>
    /\ calibration.isCalibrated

(* C20: processing a no-face frame never invokes the error callback,       *)
(* whatever features are enabled.                                          *)
C20_NoFaceIsNoError == op = "sessionNoFaceFrame" => ~managerError


----------------------------------------------------------------------------
(* Properties of the teardown, checked under SpecTeardown.                 *)

(* C21: a frame result that reaches a detector after stopCamera or cleanup *)
(* changes neither the smoothing buffer nor the debounce state and invokes *)
(* neither onDistanceUpdate nor onCalibrationFrameStatus.                  *)
C21_LateFrameIsNoOp ==
    [][ (/\ isInitialized /\ ~video
         /\ op' \in {"faceFrame", "noFaceFrame", "ignoredFrame"}) =>
        /\ UNCHANGED <<faceHistory, lastCalibrationStatus, statusStabilityCounter>>
        /\ delivered' = <<>>
        /\ notified' = "none" ]_vars


----------------------------------------------------------------------------
(* Properties of the reading-mode session, checked under SpecSession.      *)

(* C22: once reading mode has been left, or both dynamic features are      *)
(* switched off, and every pending start has settled, no capture stream    *)
(* acquired by a detector of the session is live.                          *)
C22_NoLiveStreamAfterTeardown ==
    (/\ tasks = {}
     /\ ~isReadingMode \/ (~isDynamicFontEnabled /\ ~isDynamicContrastEnabled)) =>
    \A d \in 1..Len(detectors) : detectors[d].video # "stream"


----------------------------------------------------------------------------
(* C32: at any time at most one detector of the session holds a live       *)
(* camera stream, and at most one has its detection loop running, so a     *)
(* camera frame drives onDistanceUpdate at most once.                      *)
C32_AtMostOneLiveDetector ==
    \A d \in 1..Len(detectors) : \A e \in 1..Len(detectors) :
        (/\ detectors[d].video = "stream" /\ detectors[d].isRunning
         /\ detectors[e].video = "stream" /\ detectors[e].isRunning) => d = e

(* Properties of the presentation state, checked under SpecFont.  The      *)
(* colors are a function of currentContrast: the base colors for          *)
(* BaseColors, getContrastColorsForRatio(r) for a target ratio r.          *)

(* C23: right after exitReadingMode the font size is the base font size    *)
(* and the colors are the base colors, whatever samples were processed.    *)
C23_ExitRestoresBase ==
    op = "exitReadingMode" =>
        /\ currentFontSize = baseFontSize
        /\ currentContrast = BaseColors

(* reading mode has been left right after the third frame, which was taken *)
(* outside the dead zone with both features enabled                        *)
C23_Witness ==
    /\ op = "exitReadingMode"
    /\ frameNo = MaxFontFrames
    /\ lastDistanceChangeTime = now
    /\ isDynamicFontEnabled /\ isDynamicContrastEnabled
    /\ currentFontSize = baseFontSize
    /\ currentContrast = BaseColors


(* C24: a distance sample changes nothing of the presentation while        *)
(* reading mode is off, changes the font size only if dynamic font is      *)
(* enabled and changes the colors only if dynamic contrast is enabled      *)
(* (checked under SpecSession, where frames also arrive after the exit).   *)
C24_SampleEffectGuarded ==
    [][ op' = "detectorFaceFrame" =>
        /\ ~isReadingMode => UNCHANGED <<currentFontSize, currentContrast>>
        /\ ~isDynamicFontEnabled => UNCHANGED currentFontSize
        /\ ~isDynamicContrastEnabled => UNCHANGED currentContrast ]_vars

(* a sample 50 units away has reached the manager after reading mode was   *)
(* left, with both features enabled, and has changed nothing               *)
C24_Witness ==
    /\ op = "detectorFaceFrame"
    /\ ~isReadingMode
    /\ isDynamicFontEnabled /\ isDynamicContrastEnabled
    /\ delivered[1].offset = R(50)
    /\ currentFontSize = baseFontSize
    /\ currentContrast = BaseColors


(* C25: while the store holds no calibration record, the session never     *)
(* constructs a detector, never has a start pending, and the font size and *)
(* the colors stay at their base values, however the features are enabled  *)
(* (checked under SpecSession).                                            *)
C25_NoRecordNoDetector ==
    storedCalibration = AbsentData =>
        /\ detectors = <<>>
        /\ tasks = {}
        /\ distanceDetector = 0
        /\ currentFontSize = baseFontSize
        /\ currentContrast = BaseColors

(* reading mode has been entered with both features enabled in the stored  *)
(* settings and no calibration record: the dialog has cleared the font     *)
(* flag, contrast stays enabled, and there is no detector                  *)
C25_Witness ==
    /\ op = "enterReadingMode"
    /\ storedCalibration = AbsentData
    /\ isReadingMode
    /\ isDynamicContrastEnabled
    /\ ~isDynamicFontEnabled
    /\ detectors = <<>>


----------------------------------------------------------------------------
(* Properties of the contrast mapper, checked under SpecContrast.          *)

(* C27: calculateContrastAdjustment(d) is 6 + 3 * min(1, d / 25) for d > 0 *)
(* and 6 - 2.5 * min(1, |d| / 25) for d <= 0; it is 6 at d = 0, 9 from     *)
(* d = 25 on and 3.5 down from d = -25, lies in [3.5, 9] and does not      *)
(* decrease when d grows.                                                  *)
C27_ContrastTarget ==
    [][ op' = "calculateContrastAdjustment" =>
        LET d == args'[1]
            expected == IF RLt(R(0), d)
                        THEN RAdd(R(6), RMul(R(3), RMin(R(1), RDiv(d, R(25)))))
                        ELSE RSub(R(6), RMul(Rat(5, 2), RMin(R(1), RDiv(RAbs(d), R(25)))))
        IN  /\ returned' = expected
            /\ RLe(Rat(7, 2), returned') /\ RLe(returned', R(9))
            /\ d = R(0) => returned' = R(6)
            /\ RLe(R(25), d) => returned' = R(9)
            /\ RLe(d, R(-25)) => returned' = Rat(7, 2)
            /\ (op = "calculateContrastAdjustment" /\ RLe(args[1], d)) =>
                   RLe(returned, returned') ]_vars

(* the target ratio 7.5 has been computed for the distance 12.5 *)
C27_Witness ==
    /\ op = "calculateContrastAdjustment"
    /\ args = <<Rat(25, 2)>>
    /\ returned = Rat(15, 2)

(* C28: for the target ratio 4.5 the WCAG contrast ratio of the colors     *)
(* returned by getContrastColorsForRatio is within 0.5 of 4.5.             *)
C28_AchievedRatioAtAA ==
    (op = "getContrastColorsForRatio" /\ args = <<Rat(9, 2)>>) =>
        /\ 4 * FP <= calculateContrastRatio(returned.text, returned.background)
        /\ calculateContrastRatio(returned.text, returned.background) <= 5 * FP


----------------------------------------------------------------------------
(* Properties of the stored settings, checked under SpecSession.           *)

(* C29: the flags isDynamicFontEnabled and isDynamicContrastEnabled always *)
(* equal the stored settings record: after construction (loadSettings),    *)
(* after every checkbox change and after the session clears a flag itself; *)
(* with no stored record both flags are false.                             *)
C29_SettingsFollowFlags ==
    /\ storedSettings.present =>
           /\ storedSettings.isDynamicFontEnabled = isDynamicFontEnabled
           /\ storedSettings.isDynamicContrastEnabled = isDynamicContrastEnabled
    /\ ~storedSettings.present =>
           (~isDynamicFontEnabled /\ ~isDynamicContrastEnabled)
    /\ op \in {"init", "dynamicFontCheckbox", "dynamicContrastCheckbox"} => ~managerError

(* the user has checked dynamic font in reading mode without a calibration *)
(* record: the session has cleared the flag again and stored it cleared    *)
C29_Witness ==
    /\ op = "dynamicFontCheckbox"
    /\ isReadingMode
    /\ storedCalibration = AbsentData
    /\ storedSettings.present
    /\ ~storedSettings.isDynamicFontEnabled
    /\ ~isDynamicFontEnabled


----------------------------------------------------------------------------
(* Properties of the face metrics, checked under SpecMetrics.              *)

(* C30: for landmarks with coordinates in [0, 1] and a positive image size *)
(* calculateFaceMetrics returns faceWidth >= 0, faceHeight >= 0 and        *)
(* faceCenterX, faceCenterY in [-1, 1], with                               *)
(* faceWidth = |rightEar.x - leftEar.x| * imageWidth,                      *)
(* faceHeight = |chin.y - forehead.y| * imageHeight,                       *)
(* faceCenterX = ((rightEar.x + leftEar.x) / 2 - 0.5) * 2 and              *)
(* faceCenterY = ((chin.y + forehead.y) / 2 - 0.5) * 2.                    *)
C30_FaceMetricsRanges ==
    op = "calculateFaceMetrics" =>
        LET landmarks == args[1]
            width == R(args[2])
            height == R(args[3])
        IN  /\ RLe(R(0), returned.faceWidth)
            /\ RLe(R(0), returned.faceHeight)
            /\ RLe(R(-1), returned.faceCenterX) /\ RLe(returned.faceCenterX, R(1))
            /\ RLe(R(-1), returned.faceCenterY) /\ RLe(returned.faceCenterY, R(1))
            /\ returned.faceWidth =
                   RMul(RAbs(RSub(landmarks.rightEarX, landmarks.leftEarX)), width)
            /\ returned.faceHeight =
                   RMul(RAbs(RSub(landmarks.chinY, landmarks.foreheadY)), height)
            /\ returned.faceCenterX =
                   RSub(RAdd(landmarks.rightEarX, landmarks.leftEarX), R(1))
            /\ returned.faceCenterY =
                   RSub(RAdd(landmarks.chinY, landmarks.foreheadY), R(1))

(* a mirrored face across the whole 640 px image: the right ear at x = 0,  *)
(* the left ear at x = 1, forehead and chin both on the lower edge         *)
C30_Witness ==
    /\ op = "calculateFaceMetrics"
    /\ args = <<Landmarks(R(1), R(0), R(1), R(1)), imageWidth, imageHeight>>
    /\ returned.faceWidth = R(imageWidth)
    /\ returned.faceHeight = R(0)
    /\ returned.faceCenterX = R(0)
    /\ returned.faceCenterY = R(1)

----------------------------------------------------------------------------
(* Properties of the font direction, checked under SpecFont.               *)

(* C31: for a base font size in [12, 32], a font size committed by a frame *)
(* of a calibrated detector is >= the base size when the smoothed face     *)
(* width is below the reference width (the reader is farther away, d > 0)  *)
(* and <= the base size when it is above (closer, d < 0); and the          *)
(* candidate size clamp(base * multiplier(d), 12, 32) is non-decreasing in *)
(* d: no distance below the frame's has a larger candidate, none above it  *)
(* a smaller one.                                                          *)
C31_FontFollowsDistanceSign ==
    [][ (/\ op' = "sessionFaceFrame" /\ isReadingMode /\ isDynamicFontEnabled
         /\ calibration.isCalibrated
         /\ RLe(R(12), baseFontSize) /\ RLe(baseFontSize, R(32))) =>
        LET smoothedWidth == args'[1]
            d == delivered'[1].offset
            candidate(x) ==
                RMax(R(12), RMin(R(32), RMul(baseFontSize, calculateFontSizeMultiplier(x))))
        IN  /\ RLt(smoothedWidth, calibration.referenceFaceWidth) => RLt(R(0), d)
            /\ RLt(calibration.referenceFaceWidth, smoothedWidth) => RLt(d, R(0))
            /\ currentFontSize' # currentFontSize =>
                   /\ currentFontSize' = candidate(d)
                   /\ RLt(R(0), d) => RLe(baseFontSize, currentFontSize')
                   /\ RLt(d, R(0)) => RLe(currentFontSize', baseFontSize)
            /\ \A x \in FontDistances :
                   /\ RLe(x, d) => RLe(candidate(x), candidate(d))
                   /\ RLe(d, x) => RLe(candidate(d), candidate(x)) ]_vars

(* the second frame or a later one, showing a face narrower than the       *)
(* reference, has just been committed above the base size 16               *)
C31_Witness ==
    /\ op = "sessionFaceFrame" /\ isReadingMode /\ isDynamicFontEnabled
    /\ calibration.isCalibrated
    /\ baseFontSize = R(16)
    /\ RLt(args[1], calibration.referenceFaceWidth)
    /\ lastStableDistance = delivered[1].offset
    /\ RLt(R(0), lastStableDistance)
    /\ RLt(baseFontSize, currentFontSize)
    /\ lastDistanceChangeTime = now
    /\ frameNo >= 2

(* C33: when the base font size is in [12, 32], the displayed font is the  *)
(* one the mapper assigns to the last stable distance,                     *)
(* currentFontSize = clamp(baseFontSize * multiplier(lastStableDistance),  *)
(* 12, 32), in every state: after a commit, after stopDynamicFont, after   *)
(* startDynamicFont and after leaving and re-entering reading mode.        *)
C33_FontMatchesStableDistance ==
    (RLe(R(12), baseFontSize) /\ RLe(baseFontSize, R(32))) =>
        LET linear == RAdd(R(1), RDiv(RMul(RMul(lastStableDistance, Rat(15, 10)),
                                           Rat(8, 10)), R(100)))
            multiplier == RMax(Rat(6, 10), RMin(Rat(25, 10), linear))
        IN  currentFontSize = RMax(R(12), RMin(R(32), RMul(baseFontSize, multiplier)))

(* on base 16 a sample at distance -50 has just been committed: the        *)
(* multiplier is held at 0.6 and the 9.6 px it gives is raised to 12 px    *)
C33_Witness ==
    /\ op = "sessionFaceFrame" /\ isReadingMode /\ isDynamicFontEnabled
    /\ baseFontSize = R(16)
    /\ delivered[1].offset = R(-50)
    /\ lastStableDistance = R(-50)
    /\ currentFontSize = R(12)

(* C34: whenever a handled sample d is absorbed by the dead zone (it lies   *)
(* within deadZoneRadius of deadZoneCenter), d is within                   *)
(* deadZoneRadius + fontChangeThreshold of lastStableDistance, the         *)
(* distance the displayed font was committed for.                          *)
C34_AbsorbedNearStableDistance ==
    [][ (/\ op' = "sessionFaceFrame" /\ isReadingMode /\ isDynamicFontEnabled
         /\ RLe(RAbs(RSub(delivered'[1].offset, deadZoneCenter)), deadZoneRadius)) =>
        RLe(RAbs(RSub(delivered'[1].offset, lastStableDistance)),
            RAdd(deadZoneRadius, fontChangeThreshold)) ]_vars

(* C35: while reading mode is active currentFontSize lies in [12, 32], for *)
(* every referenceFontSize the calibration dialog can persist (its slider  *)
(* runs from 10 to 32).                                                    *)
C35_FontWithinLimits ==
    isReadingMode => (RLe(R(12), currentFontSize) /\ RLe(currentFontSize, R(32)))

----------------------------------------------------------------------------
(* Properties of calibrate and the classifier, checked under SpecDet.      *)

(* C36: a call of calibrate, successful or failed, leaves                  *)
(* lastCalibrationStatus and statusStabilityCounter unchanged and delivers *)
(* no onCalibrationFrameStatus notification.                               *)
C36_CalibrateOnlyReadsClassifier ==
    [][ op' = "calibrate" =>
        /\ UNCHANGED <<lastCalibrationStatus, statusStabilityCounter>>
        /\ notified' = "none" ]_vars

(* C37: the buffer never holds samples from both sides of an interval of   *)
(* more than 500 ms in which no face frame was processed.  The buffer      *)
(* holds consecutive face frames in order of arrival, so this says that    *)
(* the timestamps of two neighbours in it are at most 500 ms apart.        *)
C37_NoSamplesAcrossFaceLoss ==
    \A i \in 1..(Len(faceHistory) - 1) :
        faceHistory[i + 1].timestamp - faceHistory[i].timestamp <= NoFaceGrace

----------------------------------------------------------------------------
(* Properties of the two feature toggles, checked under SpecSession.       *)

(* C38: a change of the dynamic-contrast checkbox, also one that enables   *)
(* the feature without a calibration record, leaves isDynamicFontEnabled   *)
(* as it was, in memory and in the stored settings (an absent record or    *)
(* field reads as off); a change of the dynamic-font checkbox leaves       *)
(* isDynamicContrastEnabled as it was, in memory and in the store.         *)
C38_TogglesAreIndependent ==
    [][ /\ op' = "dynamicContrastCheckbox" =>
              /\ isDynamicFontEnabled' = isDynamicFontEnabled
              /\ (storedSettings'.present /\ storedSettings'.isDynamicFontEnabled)
                     = (storedSettings.present /\ storedSettings.isDynamicFontEnabled)
        /\ op' = "dynamicFontCheckbox" =>
              /\ isDynamicContrastEnabled' = isDynamicContrastEnabled
              /\ (storedSettings'.present /\ storedSettings'.isDynamicContrastEnabled)
                     = (storedSettings.present /\ storedSettings.isDynamicContrastEnabled)
      ]_vars

(* in reading mode without a calibration record the contrast checkbox has   *)
(* just been ticked: the calibration-required dialog was shown, no         *)
(* detector was created, and the font flag is off as before                *)
C38_Witness ==
    /\ op = "dynamicContrastCheckbox"
    /\ isReadingMode /\ isDynamicContrastEnabled
    /\ ~HasCalibrationData(storedCalibration)
    /\ distanceDetector = 0
    /\ ~isDynamicFontEnabled
    /\ storedSettings.present /\ ~storedSettings.isDynamicFontEnabled
    /\ storedSettings.isDynamicContrastEnabled

----------------------------------------------------------------------------
(* Properties of a failed start, checked under SpecStartup.                *)

(* C39: when the landmark model of the session's detector failed to        *)
(* initialize, then once the start has run to its end the session does not *)
(* hold an acquired camera with no detection loop running.                 *)
C39_NoCameraWithoutModel ==
    (/\ tasks = {}
     /\ distanceDetector # 0
     /\ ~detectors[distanceDetector].isInitialized) =>
    ~(/\ detectors[distanceDetector].video = "stream"
      /\ ~detectors[distanceDetector].isRunning)

----------------------------------------------------------------------------
(* Properties of the calibration dialog, checked under SpecDialog.         *)

(* C40: at most one calibration countdown is in progress at a time: from   *)
(* startCalibration until its completeCalibration has finished no second   *)
(* countdown is started.                                                   *)
C40_OneCountdownAtATime == Len(countdowns) <= 1

====
